---- MODULE Spec2Model ----
(***************************************************************************)
(* Timeline editor: clip store, drag/trim/snap state machine, playback     *)
(* clock and media-sink synchronisation.                                   *)
(*                                                                         *)
(* Time is counted in units of one timeline pixel, i.e. 1/PIXELS_PER_SECOND*)
(* of a second, so that 0.5 s, the 15 px snap radius and the 0.3 s sync    *)
(* tolerance are all whole numbers and pixel/time conversion is exact.     *)
(***************************************************************************)
EXTENDS Integers, Sequences, FiniteSets, TLC

VARIABLES
    assets,            \* project.assets   : sequence of MediaAsset
    timeline,          \* project.timeline : sequence of TimelineClip
    currentTime,       \* App state
    isPlaying,         \* App state
    selectedClipId,    \* App state, 0 = null
    dragState,         \* Timeline state, NoDrag = null
    snapLineX,         \* Timeline state, <<>> = null, <<x>> = x
    isDraggingHeader,  \* Timeline state
    sinks,             \* the media elements behind mainVideoRef, pipVideoRef, audioRef
    nextId,            \* source of fresh clip ids (crypto.randomUUID)
    moves,             \* number of pointer moves handled during drags so far
    lastOp,            \* name of the handler that ran last
    isGenerating,      \* AssetLibrary state
    genPending,        \* a generateAIAsset promise is unsettled
    storage,           \* localStorage[STORAGE_KEY], parsed; <<>> when absent
    legacyVideo,       \* the <video> behind videoPlayerRef of the single-track App
    handsOff           \* environment: the user gives no further input

vars == <<assets, timeline, currentTime, isPlaying, selectedClipId, dragState,
          snapLineX, isDraggingHeader, sinks, nextId, moves, lastOp,
          isGenerating, genPending, storage, legacyVideo, handsOff>>

\* state that the handlers of the multi-track App and of Timeline never touch
outside == <<isGenerating, genPending, storage, legacyVideo, handsOff>>

----------------------------------------------------------------------------
\* Program constants

PIXELS_PER_SECOND == 40
SNAP_THRESHOLD_PX == 15
HEADER_WIDTH == 100

\* time units per second: one unit is one pixel of the timeline
UnitsPerSecond == PIXELS_PER_SECOND
\* 0.5 s
MIN_CLIP_DURATION == UnitsPerSecond \div 2
\* 0.3 s
SyncTolerance == (3 * UnitsPerSecond) \div 10
\* default durations given to imported images (5 s) and text (3 s)
ImageDuration == 5 * UnitsPerSecond
TextDuration == 3 * UnitsPerSecond

VIDEO == "video"
IMAGE == "image"
AUDIO == "audio"
TEXT == "text"

----------------------------------------------------------------------------
\* Bounds of the model

MaxAssets == 1
MaxIds == 3
\* clip ids handed out while drags are explored
MaxEditIds == 2
MaxTime == 240
MaxMoves == 2
\* duration, in time units, of the video and audio files that are imported
MediaDurations == {80}
\* pointer positions (clientX) of presses and of moves during a drag
PressXs == {100}
MoveXs == {20, 90, 180}
\* pointer positions of clicks on the ruler / track area, and scroll offsets
SeekXs == {150, 210, 240}
ScrollLefts == {0}
\* the container's bounding rectangle starts right of the track headers
RectLeft == HEADER_WIDTH
\* wall-clock deltas of animation frames, in time units
TickDeltas == {0, 12, 40}
\* native progress of a playing media element between two handlers
SinkDeltas == {8}

----------------------------------------------------------------------------
\* Values

NoClip == [id |-> 0, assetId |-> 0, startOffset |-> 0, mediaStart |-> 0,
           duration |-> 0, trackIndex |-> 0]
NoAsset == [id |-> 0, type |-> "none", src |-> 0, duration |-> 0]
NoDrag == [clipId |-> 0, handle |-> "none", startX |-> 0, originalClip |-> NoClip]

Abs(x) == IF x < 0 THEN -x ELSE x
Max(a, b) == IF a >= b THEN a ELSE b

\* deltaPixels / PIXELS_PER_SECOND, in time units
PixelsToTime(px) == (px * UnitsPerSecond) \div PIXELS_PER_SECOND
\* t * PIXELS_PER_SECOND, in pixels
TimeToPixels(t) == (t * PIXELS_PER_SECOND) \div UnitsPerSecond

\* Array.prototype.findIndex on id, 0 when absent
IndexOfId(seq, id) ==
    IF \E i \in 1..Len(seq) : seq[i].id = id
    THEN CHOOSE i \in 1..Len(seq) :
            seq[i].id = id /\ \A j \in 1..(i - 1) : seq[j].id # id
    ELSE 0

\* project.timeline.reduce((max, clip) => Math.max(max, start + duration), 0)
RECURSIVE totalDurationOf(_)
totalDurationOf(tl) ==
    IF tl = <<>> THEN 0
    ELSE LET rest == totalDurationOf(SubSeq(tl, 1, Len(tl) - 1))
             c == tl[Len(tl)]
         IN Max(rest, c.startOffset + c.duration)

totalDuration == totalDurationOf(timeline)

\* mutant of getActiveClip: the end of a clip still belongs to it
getActiveClip_Inclusive(tl, trackIndex, t) ==
    LET hit(i) == /\ tl[i].trackIndex = trackIndex
                  /\ t >= tl[i].startOffset
                  /\ t <= tl[i].startOffset + tl[i].duration
    IN IF \E i \in 1..Len(tl) : hit(i)
       THEN tl[CHOOSE i \in 1..Len(tl) : hit(i) /\ \A j \in 1..(i - 1) : ~hit(j)]
       ELSE NoClip

\* project.timeline.find(clip on track, startOffset <= t < startOffset + duration)
getActiveClip(tl, trackIndex, t) ==
    LET hit(i) == /\ tl[i].trackIndex = trackIndex
                  /\ t >= tl[i].startOffset
                  /\ t < tl[i].startOffset + tl[i].duration
    IN IF \E i \in 1..Len(tl) : hit(i)
       THEN tl[CHOOSE i \in 1..Len(tl) : hit(i) /\ \A j \in 1..(i - 1) : ~hit(j)]
       ELSE NoClip

\* mutant of getAsset: a clip without asset is given the first asset of the list
getAsset_Fallback(as, clip) ==
    IF clip = NoClip THEN NoAsset
    ELSE IF IndexOfId(as, clip.assetId) = 0
    THEN (IF Len(as) > 0 THEN as[1] ELSE NoAsset)
    ELSE as[IndexOfId(as, clip.assetId)]

\* clip ? project.assets.find(a => a.id === clip.assetId) : null
getAsset(as, clip) ==
    IF clip = NoClip \/ IndexOfId(as, clip.assetId) = 0 THEN NoAsset
    ELSE as[IndexOfId(as, clip.assetId)]

----------------------------------------------------------------------------
\* Snap logic (Timeline.getSnapTime)

SnapThresholdTime == PixelsToTime(SNAP_THRESHOLD_PX)

\* the start and end of every clip other than excludeClipId, in store order
RECURSIVE ClipSnapPoints(_, _)
ClipSnapPoints(clips, excludeClipId) ==
    IF clips = <<>> THEN <<>>
    ELSE LET c == Head(clips)
         IN (IF c.id = excludeClipId THEN <<>>
             ELSE <<c.startOffset, c.startOffset + c.duration>>)
            \o ClipSnapPoints(Tail(clips), excludeClipId)

SnapPoints(excludeClipId, clips, ct) ==
    <<0, ct>> \o ClipSnapPoints(clips, excludeClipId)

\* mutant of SnapBetter: a point exactly one threshold away snaps too
SnapBetter_Inclusive(diff, best) ==
    diff <= SnapThresholdTime /\ (~best.snapped \/ diff < best.minDiff)

\* whether a point at distance diff replaces the best snap found so far
\* (minDiff is Infinity until something snapped)
SnapBetter(diff, best) ==
    diff < SnapThresholdTime /\ (~best.snapped \/ diff < best.minDiff)

\* the for-loop over snapPoints, from index i on
RECURSIVE SnapScan(_, _, _, _)
SnapScan(points, i, proposedTime, best) ==
    IF i > Len(points) THEN best
    ELSE LET diff == Abs(proposedTime - points[i])
         IN SnapScan(points, i + 1, proposedTime,
                     IF SnapBetter(diff, best)
                     THEN [time |-> points[i], minDiff |-> diff, snapped |-> TRUE]
                     ELSE best)

getSnapTime(proposedTime, excludeClipId, clips, ct) ==
    LET r == SnapScan(SnapPoints(excludeClipId, clips, ct), 1, proposedTime,
                      [time |-> proposedTime, minDiff |-> 0, snapped |-> FALSE])
    IN [time |-> r.time, snapped |-> r.snapped]

----------------------------------------------------------------------------
\* Handle transforms (Timeline.handleGlobalMouseMove)

IsTimeBounded(asset) == asset.type = VIDEO \/ asset.type = AUDIO

\* mutant of BodyMove: the right edge is tested before the left edge
BodyMove_RightFirst(orig, clipId, deltaTime, clips, ct) ==
    LET newStartOffset == orig.startOffset + deltaTime
        snapLeft == getSnapTime(newStartOffset, clipId, clips, ct)
        snapRight == getSnapTime(newStartOffset + orig.duration, clipId, clips, ct)
        moved == IF snapRight.snapped THEN snapRight.time - orig.duration
                 ELSE IF snapLeft.snapped THEN snapLeft.time
                 ELSE newStartOffset
    IN [updates |-> [startOffset |-> IF moved < 0 THEN 0 ELSE moved],
        snapX |-> IF snapRight.snapped THEN <<TimeToPixels(snapRight.time)>>
                  ELSE IF snapLeft.snapped THEN <<TimeToPixels(snapLeft.time)>>
                  ELSE <<>>]

BodyMove(orig, clipId, deltaTime, clips, ct) ==
    LET newStartOffset == orig.startOffset + deltaTime
        snapLeft == getSnapTime(newStartOffset, clipId, clips, ct)
        snapRight == getSnapTime(newStartOffset + orig.duration, clipId, clips, ct)
        moved == IF snapLeft.snapped THEN snapLeft.time
                 ELSE IF snapRight.snapped THEN snapRight.time - orig.duration
                 ELSE newStartOffset
    IN [updates |-> [startOffset |-> IF moved < 0 THEN 0 ELSE moved],
        snapX |-> IF snapLeft.snapped THEN <<TimeToPixels(snapLeft.time)>>
                  ELSE IF snapRight.snapped THEN <<TimeToPixels(snapRight.time)>>
                  ELSE <<>>]

\* mutant of LeftMove: a move that breaks a constraint is rejected, the clip
\* keeps its press-time geometry
LeftMove_Reject(orig, clipId, deltaTime, clips, ct) ==
    LET snapResult == getSnapTime(orig.startOffset + deltaTime, clipId, clips, ct)
        actualDelta == snapResult.time - orig.startOffset
        broken == \/ orig.mediaStart + actualDelta < 0
                  \/ orig.duration - actualDelta < MIN_CLIP_DURATION
    IN [updates |->
            [startOffset |-> IF broken THEN orig.startOffset ELSE snapResult.time,
             mediaStart |-> IF broken THEN orig.mediaStart
                            ELSE orig.mediaStart + actualDelta,
             duration |-> IF broken THEN orig.duration ELSE orig.duration - actualDelta],
        snapX |-> IF snapResult.snapped THEN <<TimeToPixels(snapResult.time)>> ELSE <<>>]

\* mutant of LeftMove: the minimum-duration clamp leaves the start where the
\* pointer put it
LeftMove_ShortKeepsStart(orig, clipId, deltaTime, clips, ct) ==
    LET snapResult == getSnapTime(orig.startOffset + deltaTime, clipId, clips, ct)
        actualDelta == snapResult.time - orig.startOffset
        newMediaStart0 == orig.mediaStart + actualDelta
        correction == IF newMediaStart0 < 0 THEN 0 - newMediaStart0 ELSE 0
        newDuration1 == orig.duration - actualDelta - correction
    IN [updates |->
            [startOffset |-> snapResult.time + correction,
             mediaStart |-> newMediaStart0 + correction,
             duration |-> IF newDuration1 < MIN_CLIP_DURATION
                          THEN MIN_CLIP_DURATION ELSE newDuration1],
        snapX |-> IF snapResult.snapped THEN <<TimeToPixels(snapResult.time)>> ELSE <<>>]

LeftMove(orig, clipId, deltaTime, clips, ct) ==
    LET snapResult == getSnapTime(orig.startOffset + deltaTime, clipId, clips, ct)
        finalStart0 == snapResult.time
        actualDelta == finalStart0 - orig.startOffset
        newMediaStart0 == orig.mediaStart + actualDelta
        newDuration0 == orig.duration - actualDelta
        \* mediaStart < 0: pin it to 0 and shift the correction into start and duration
        correction == IF newMediaStart0 < 0 THEN 0 - newMediaStart0 ELSE 0
        newMediaStart1 == newMediaStart0 + correction
        finalStart1 == finalStart0 + correction
        newDuration1 == newDuration0 - correction
        \* duration < MIN: recompute from the right edge
        short == newDuration1 < MIN_CLIP_DURATION
    IN [updates |->
            [startOffset |-> IF short
                             THEN (orig.startOffset + orig.duration) - MIN_CLIP_DURATION
                             ELSE finalStart1,
             mediaStart |-> IF short
                            THEN (orig.mediaStart + orig.duration) - MIN_CLIP_DURATION
                            ELSE newMediaStart1,
             duration |-> IF short THEN MIN_CLIP_DURATION ELSE newDuration1],
        snapX |-> IF snapResult.snapped THEN <<TimeToPixels(finalStart0)>> ELSE <<>>]

\* mutant of ClampToAsset: the asset-length clamp is missing
ClampToAsset_None(newDuration, orig, asset) == newDuration

\* the asset-length clamp of the right handle
ClampToAsset(newDuration, orig, asset) ==
    IF IsTimeBounded(asset) /\ orig.mediaStart + newDuration > asset.duration
    THEN asset.duration - orig.mediaStart
    ELSE newDuration

\* mutant of RightMove: the asset-length clamp runs before the minimum
RightMove_ClampFirst(orig, clipId, deltaTime, clips, ct, asset) ==
    LET proposedEnd == orig.startOffset + orig.duration + deltaTime
        snapResult == getSnapTime(proposedEnd, clipId, clips, ct)
        newDuration0 == IF snapResult.snapped
                        THEN snapResult.time - orig.startOffset
                        ELSE orig.duration + deltaTime
        newDuration1 == ClampToAsset(newDuration0, orig, asset)
    IN [updates |-> [duration |-> IF newDuration1 < MIN_CLIP_DURATION
                                  THEN MIN_CLIP_DURATION ELSE newDuration1],
        snapX |-> IF snapResult.snapped THEN <<TimeToPixels(snapResult.time)>> ELSE <<>>]

RightMove(orig, clipId, deltaTime, clips, ct, asset) ==
    LET proposedEnd == orig.startOffset + orig.duration + deltaTime
        snapResult == getSnapTime(proposedEnd, clipId, clips, ct)
        newDuration0 == IF snapResult.snapped
                        THEN snapResult.time - orig.startOffset
                        ELSE orig.duration + deltaTime
        newDuration1 == IF newDuration0 < MIN_CLIP_DURATION
                        THEN MIN_CLIP_DURATION ELSE newDuration0
    IN [updates |-> [duration |-> ClampToAsset(newDuration1, orig, asset)],
        snapX |-> IF snapResult.snapped THEN <<TimeToPixels(snapResult.time)>> ELSE <<>>]

\* mutant of MoveResult: the transform starts from the clip's stored geometry
MoveResult_FromCurrent(ds, deltaTime, clips, ct, asset) ==
    LET cur == IF IndexOfId(clips, ds.clipId) = 0 THEN ds.originalClip
               ELSE clips[IndexOfId(clips, ds.clipId)]
    IN IF ds.handle = "body" THEN BodyMove(cur, ds.clipId, deltaTime, clips, ct)
       ELSE IF ds.handle = "left" THEN LeftMove(cur, ds.clipId, deltaTime, clips, ct)
       ELSE RightMove(cur, ds.clipId, deltaTime, clips, ct, asset)

\* the candidate update of one pointer move: dragState.originalClip + total delta
MoveResult(ds, deltaTime, clips, ct, asset) ==
    IF ds.handle = "body" THEN BodyMove(ds.originalClip, ds.clipId, deltaTime, clips, ct)
    ELSE IF ds.handle = "left" THEN LeftMove(ds.originalClip, ds.clipId, deltaTime, clips, ct)
    ELSE RightMove(ds.originalClip, ds.clipId, deltaTime, clips, ct, asset)

\* { ...c, ...updates }
Merge(c, updates) ==
    [f \in DOMAIN c |-> IF f \in DOMAIN updates THEN updates[f] ELSE c[f]]

\* mutant of handleUpdateClip: the id comparison is missing
handleUpdateClip_AllClips(tl, clipId, updates) ==
    [i \in 1..Len(tl) |-> Merge(tl[i], updates)]

\* App.handleUpdateClip
handleUpdateClip(tl, clipId, updates) ==
    [i \in 1..Len(tl) |-> IF tl[i].id = clipId THEN Merge(tl[i], updates) ELSE tl[i]]

----------------------------------------------------------------------------
\* Media sinks and the Sync Effect (App)

\* tracks that have a media element: 0 main <video>, 1 PIP <video>, 3 <audio>
SinkTracks == {0, 1, 3}

\* a media element: its src attribute, currentTime, paused flag, and whether a
\* load() of the source is still in progress (no metadata yet)
Unmounted == [mounted |-> FALSE, src |-> 0, pos |-> 0, paused |-> TRUE,
              loading |-> FALSE]
FreshElement == [mounted |-> TRUE, src |-> 0, pos |-> 0, paused |-> TRUE,
                 loading |-> FALSE]

\* the <video> of tracks 0 and 1 is rendered only while the track's active asset
\* is a video; the <audio> element is always rendered
IsRendered(trackIndex, asset) ==
    IF trackIndex = 3 THEN TRUE ELSE asset.type = VIDEO

RenderSink(el, trackIndex, asset) ==
    IF IsRendered(trackIndex, asset)
    THEN (IF el.mounted THEN el ELSE FreshElement)
    ELSE Unmounted

\* mutant of NeedsSeek: a drift of exactly the tolerance is corrected too
NeedsSeek_Inclusive(pos, targetTime) == Abs(pos - targetTime) >= SyncTolerance

\* the drift test of syncMediaElement
NeedsSeek(pos, targetTime) == Abs(pos - targetTime) > SyncTolerance

\* mutant of syncMediaElement: a sink without active media is left as it is
syncMediaElement_NoPause(el, clip, asset, ct, playing) ==
    IF ~el.mounted THEN el
    ELSE IF clip = NoClip \/ asset = NoAsset \/ ~IsTimeBounded(asset)
    THEN el
    ELSE LET e1 == IF el.src # asset.src
                   THEN [el EXCEPT !.src = asset.src, !.pos = 0, !.paused = TRUE,
                                   !.loading = TRUE]
                   ELSE el
             targetTime == clip.mediaStart + (ct - clip.startOffset)
             e2 == IF NeedsSeek(e1.pos, targetTime)
                   THEN [e1 EXCEPT !.pos = targetTime]
                   ELSE e1
         IN [e2 EXCEPT !.paused = IF playing /\ e2.paused THEN FALSE
                                  ELSE IF ~playing /\ ~e2.paused THEN TRUE
                                  ELSE e2.paused]

syncMediaElement(el, clip, asset, ct, playing) ==
    IF ~el.mounted THEN el
    ELSE IF clip = NoClip \/ asset = NoAsset \/ ~IsTimeBounded(asset)
    THEN [el EXCEPT !.paused = TRUE]
    ELSE LET \* element.src = asset.src; element.load()
             e1 == IF el.src # asset.src
                   THEN [el EXCEPT !.src = asset.src, !.pos = 0, !.paused = TRUE,
                                   !.loading = TRUE]
                   ELSE el
             targetTime == clip.mediaStart + (ct - clip.startOffset)
             e2 == IF NeedsSeek(e1.pos, targetTime)
                   THEN [e1 EXCEPT !.pos = targetTime]
                   ELSE e1
         IN [e2 EXCEPT !.paused = IF playing /\ e2.paused THEN FALSE
                                  ELSE IF ~playing /\ ~e2.paused THEN TRUE
                                  ELSE e2.paused]

\* the dependency list of the Sync Effect: it runs when the time, the play
\* state, an active clip or its asset changed; touched are the ids of the clips
\* the handler replaced by new objects
DepsChanged(tl2, as2, ct2, playing2, touched) ==
    \/ ct2 # currentTime
    \/ playing2 # isPlaying
    \/ \E tr \in SinkTracks :
          LET before == getActiveClip(timeline, tr, currentTime)
              after == getActiveClip(tl2, tr, ct2)
          IN \/ after # before
             \/ after.id \in touched
             \/ getAsset(as2, after) # getAsset(assets, before)

\* re-render and Sync Effect after a handler set the state to the given values
Commit(tl2, as2, ct2, playing2, touched) ==
    LET active(tr) == getActiveClip(tl2, tr, ct2)
        rendered == [tr \in SinkTracks |->
                        RenderSink(sinks[tr], tr, getAsset(as2, active(tr)))]
        ran == DepsChanged(tl2, as2, ct2, playing2, touched)
    IN sinks' = IF ran
               THEN [tr \in SinkTracks |->
                        syncMediaElement(rendered[tr], active(tr),
                                         getAsset(as2, active(tr)), ct2, playing2)]
               ELSE rendered

\* the single-track App's <video>: the element and its onloadedmetadata handler,
\* a closure over the target time and the play state of the pass that set it
NoHandler == [set |-> FALSE, target |-> 0, play |-> FALSE]
LegacyUnmounted == [mounted |-> FALSE, src |-> 0, pos |-> 0, paused |-> TRUE,
                    loading |-> FALSE, onloadedmetadata |-> NoHandler]
LegacyFresh == [mounted |-> TRUE, src |-> 0, pos |-> 0, paused |-> TRUE,
                loading |-> FALSE, onloadedmetadata |-> NoHandler]

----------------------------------------------------------------------------
\* Initial state: the App and Timeline components after mounting

Init ==
    /\ assets = <<>>
    /\ timeline = <<>>
    /\ currentTime = 0
    /\ isPlaying = FALSE
    /\ selectedClipId = 0
    /\ dragState = NoDrag
    /\ snapLineX = <<>>
    /\ isDraggingHeader = FALSE
    /\ sinks = [tr \in SinkTracks |-> IF tr = 3 THEN FreshElement ELSE Unmounted]
    /\ nextId = 1
    /\ moves = 0
    /\ lastOp = "init"
    /\ isGenerating = FALSE
    /\ genPending = FALSE
    /\ storage = <<>>
    /\ legacyVideo = LegacyUnmounted
    /\ handsOff = FALSE

----------------------------------------------------------------------------
\* Asset library

\* what an import, the text button or the AI generator hands to onAddAsset
NewAssets ==
    [type : {VIDEO, AUDIO}, duration : MediaDurations]
        \cup {[type |-> IMAGE, duration |-> ImageDuration],
              [type |-> TEXT, duration |-> TextDuration]}

\* the imports of the editing specification
EditAssets == {a \in NewAssets : a.type \in {VIDEO, IMAGE}}

handleAddAsset(a) ==
    /\ Len(assets) < MaxAssets
    /\ assets' = Append(assets, [id |-> Len(assets) + 1, type |-> a.type,
                                 src |-> Len(assets) + 1, duration |-> a.duration])
    /\ Commit(timeline, assets', currentTime, isPlaying, {})
    /\ lastOp' = "addAsset"
    /\ UNCHANGED outside
    /\ UNCHANGED <<timeline, currentTime, isPlaying, selectedClipId, dragState,
                   snapLineX, isDraggingHeader, nextId, moves>>

\* AI generation (AssetLibrary.handleGenerateAI, geminiService.generateAIAsset)

\* duration of a generated image, 5 s
GeneratedDuration == 5 * UnitsPerSecond

\* how a generateAIAsset call settles: a data URL, or an exception because the
\* response holds no image data or the request was rejected
GenOutcomes == {"image", "noData", "rejected"}

\* mutant of FlagAfterSettle: the flag is reset on the success path only
FlagAfterSettle_SuccessOnly(outcome) == outcome # "image"

\* finally { setIsGenerating(false) }
FlagAfterSettle(outcome) == FALSE

\* click on Generate; the button is disabled while isGenerating or when the
\* prompt is blank, and the handler returns on a blank prompt
handleGenerateAI(promptBlank) ==
    IF isGenerating \/ promptBlank
    THEN UNCHANGED vars
    ELSE /\ isGenerating' = TRUE
         /\ genPending' = TRUE
         /\ lastOp' = "generate"
         /\ UNCHANGED <<assets, timeline, currentTime, isPlaying, selectedClipId,
                        dragState, snapLineX, isDraggingHeader, sinks, nextId, moves,
                        storage, legacyVideo, handsOff>>

\* the awaited promise settles: try / catch / finally of handleGenerateAI
GenerateSettles(outcome) ==
    /\ genPending
    /\ genPending' = FALSE
    /\ isGenerating' = FlagAfterSettle(outcome)
    /\ IF outcome = "image"
       THEN /\ Len(assets) < MaxAssets
            /\ assets' = Append(assets, [id |-> Len(assets) + 1, type |-> IMAGE,
                                         src |-> Len(assets) + 1,
                                         duration |-> GeneratedDuration])
            /\ lastOp' = "generated"
       ELSE /\ assets' = assets
            /\ lastOp' = "generateFailed"
    /\ Commit(timeline, assets', currentTime, isPlaying, {})
    /\ UNCHANGED <<timeline, currentTime, isPlaying, selectedClipId, dragState,
                   snapLineX, isDraggingHeader, nextId, moves, storage, legacyVideo,
                   handsOff>>

----------------------------------------------------------------------------
\* Persistence (storageService.saveProject / getProjects)

DefaultProjectId == "default-project"
DefaultProjectName == "Untitled Project"

\* the project held by the App (lastModified is left out)
CurrentProject ==
    [id |-> DefaultProjectId, name |-> DefaultProjectName, assets |-> assets,
     timeline |-> timeline]

\* JSON.stringify / JSON.parse of a clip: an object literal with its six fields
StringifyClip(c) ==
    <<c.id, c.assetId, c.startOffset, c.mediaStart, c.duration, c.trackIndex>>
ParseClip(t) ==
    [id |-> t[1], assetId |-> t[2], startOffset |-> t[3], mediaStart |-> t[4],
     duration |-> t[5], trackIndex |-> t[6]]

StringifyAsset(a) == <<a.id, a.type, a.src, a.duration>>
ParseAsset(t) == [id |-> t[1], type |-> t[2], src |-> t[3], duration |-> t[4]]

StringifyProject(pr) ==
    <<pr.id, pr.name,
      [i \in 1..Len(pr.assets) |-> StringifyAsset(pr.assets[i])],
      [i \in 1..Len(pr.timeline) |-> StringifyClip(pr.timeline[i])]>>
ParseProject(t) ==
    [id |-> t[1], name |-> t[2],
     assets |-> [i \in 1..Len(t[3]) |-> ParseAsset(t[3][i])],
     timeline |-> [i \in 1..Len(t[4]) |-> ParseClip(t[4][i])]]

\* data ? JSON.parse(data) : []
getProjects(st) == [i \in 1..Len(st) |-> ParseProject(st[i])]

\* mutant of saveProject: the assets are written along with the structure
saveProject_WithAssets(st, project, setItemFails) ==
    LET existing == getProjects(st)
        index == IndexOfId(existing, project.id)
        updated == IF index > 0 THEN [existing EXCEPT ![index] = project]
                   ELSE Append(existing, project)
    IN IF setItemFails THEN st
       ELSE [i \in 1..Len(updated) |-> StringifyProject(updated[i])]

\* the content of localStorage[STORAGE_KEY] after saveProject(project);
\* setItemFails: localStorage.setItem throws (quota), caught and logged
saveProject(st, project, setItemFails) ==
    LET existing == getProjects(st)
        index == IndexOfId(existing, project.id)
        updated == IF index > 0 THEN [existing EXCEPT ![index] = project]
                   ELSE Append(existing, project)
        safeToSave == [i \in 1..Len(updated) |-> [updated[i] EXCEPT !.assets = <<>>]]
    IN IF setItemFails THEN st
       ELSE [i \in 1..Len(safeToSave) |-> StringifyProject(safeToSave[i])]

\* click on Save
SaveClick(setItemFails) ==
    /\ storage' = saveProject(storage, CurrentProject, setItemFails)
    /\ lastOp' = IF setItemFails THEN "saveFailed" ELSE "save"
    /\ UNCHANGED <<assets, timeline, currentTime, isPlaying, selectedClipId,
                   dragState, snapLineX, isDraggingHeader, sinks, nextId, moves,
                   isGenerating, genPending, legacyVideo, handsOff>>

----------------------------------------------------------------------------
\* Clip store (App)

\* mutant of TrackOf: video goes to the overlay track
TrackOf_Overlay(asset) ==
    IF asset.type = TEXT THEN 2
    ELSE IF asset.type = AUDIO THEN 3
    ELSE IF asset.type = VIDEO THEN 1
    ELSE 0

\* Video/Image -> track 0, Text -> 2, Audio -> 3
TrackOf(asset) ==
    IF asset.type = TEXT THEN 2
    ELSE IF asset.type = AUDIO THEN 3
    ELSE 0

\* the clips of one track, in store order
TrackClips(tl, trackIndex) == SelectSeq(tl, LAMBDA c : c.trackIndex = trackIndex)

\* end of the last clip of the track in store order, 0 when the track is empty
InsertionPoint(tl, trackIndex) ==
    LET trackClips == TrackClips(tl, trackIndex)
    IN IF Len(trackClips) > 0
       THEN trackClips[Len(trackClips)].startOffset + trackClips[Len(trackClips)].duration
       ELSE 0

NewClip(asset, tl, id) ==
    [id |-> id, assetId |-> asset.id, startOffset |-> InsertionPoint(tl, TrackOf(asset)),
     mediaStart |-> 0, duration |-> asset.duration, trackIndex |-> TrackOf(asset)]

handleAddToTimeline(assetId) ==
    LET asset == IF IndexOfId(assets, assetId) = 0 THEN NoAsset
                 ELSE assets[IndexOfId(assets, assetId)]
    IN IF asset = NoAsset
       THEN UNCHANGED vars
       ELSE /\ nextId <= MaxIds
            /\ timeline' = Append(timeline, NewClip(asset, timeline, nextId))
            /\ nextId' = nextId + 1
            /\ lastOp' = "addToTimeline"
            /\ UNCHANGED outside
            /\ Commit(timeline', assets, currentTime, isPlaying, {})
            /\ UNCHANGED <<assets, currentTime, isPlaying, selectedClipId, dragState,
                           snapLineX, isDraggingHeader, moves>>

\* mutant of DeleteTimeline: the clips after the removed one close the gap
DeleteTimeline_CloseGap(tl, clipId) ==
    LET i == IndexOfId(tl, clipId)
        kept == SelectSeq(tl, LAMBDA c : c.id # clipId)
    IN IF i = 0 THEN tl
       ELSE [j \in 1..Len(kept) |->
                IF kept[j].trackIndex = tl[i].trackIndex
                   /\ kept[j].startOffset >= tl[i].startOffset + tl[i].duration
                THEN [kept[j] EXCEPT !.startOffset = @ - tl[i].duration]
                ELSE kept[j]]

\* prev.timeline.filter(c => c.id !== clipId)
DeleteTimeline(tl, clipId) == SelectSeq(tl, LAMBDA c : c.id # clipId)

\* mutant of handleDeleteClip: the selection is not cleared
handleDeleteClip_KeepSelection(clipId) ==
    /\ clipId # 0
    /\ timeline' = DeleteTimeline(timeline, clipId)
    /\ Commit(timeline', assets, currentTime, isPlaying, {})
    /\ lastOp' = "delete"
    /\ UNCHANGED outside
    /\ UNCHANGED <<assets, currentTime, isPlaying, selectedClipId, dragState,
                   snapLineX, isDraggingHeader, nextId, moves>>

\* toolbar Delete button and the selected clip's own delete button
handleDeleteClip(clipId) ==
    /\ clipId # 0
    /\ timeline' = DeleteTimeline(timeline, clipId)
    /\ selectedClipId' = IF selectedClipId = clipId THEN 0 ELSE selectedClipId
    /\ Commit(timeline', assets, currentTime, isPlaying, {})
    /\ lastOp' = "delete"
    /\ UNCHANGED outside
    /\ UNCHANGED <<assets, currentTime, isPlaying, dragState, snapLineX,
                   isDraggingHeader, nextId, moves>>

\* mutant of CanSplit: the playhead may sit on an edge of the clip
CanSplit_Inclusive(clip, ct) ==
    ct >= clip.startOffset /\ ct <= clip.startOffset + clip.duration

\* the playhead is strictly inside the clip
CanSplit(clip, ct) ==
    ct > clip.startOffset /\ ct < clip.startOffset + clip.duration

SplitPart1(clip, ct) == [clip EXCEPT !.duration = ct - clip.startOffset]

\* mutant of SplitPart2: the second part keeps the source offset of the first
SplitPart2_SameMediaStart(clip, ct, id) ==
    [clip EXCEPT !.id = id,
                 !.startOffset = clip.startOffset + (ct - clip.startOffset),
                 !.duration = clip.duration - (ct - clip.startOffset)]

\* mutant of SplitPart2: the second part keeps the id of the clip
SplitPart2_SameId(clip, ct, id) ==
    [clip EXCEPT !.startOffset = clip.startOffset + (ct - clip.startOffset),
                 !.mediaStart = clip.mediaStart + (ct - clip.startOffset),
                 !.duration = clip.duration - (ct - clip.startOffset)]

\* mutant of SplitPart2: the second part goes to the overlay track
SplitPart2_Overlay(clip, ct, id) ==
    [clip EXCEPT !.id = id,
                 !.startOffset = clip.startOffset + (ct - clip.startOffset),
                 !.mediaStart = clip.mediaStart + (ct - clip.startOffset),
                 !.duration = clip.duration - (ct - clip.startOffset),
                 !.trackIndex = 1]

SplitPart2(clip, ct, id) ==
    [clip EXCEPT !.id = id,
                 !.startOffset = clip.startOffset + (ct - clip.startOffset),
                 !.mediaStart = clip.mediaStart + (ct - clip.startOffset),
                 !.duration = clip.duration - (ct - clip.startOffset)]

\* newTimeline.splice(clipIndex, 1, part1, part2)
Splice(tl, clipIndex, part1, part2) ==
    SubSeq(tl, 1, clipIndex - 1) \o <<part1, part2>> \o SubSeq(tl, clipIndex + 1, Len(tl))

\* whether handleSplit gets past its early returns
SplitApplies(tl, selected, ct) ==
    /\ selected # 0
    /\ IndexOfId(tl, selected) # 0
    /\ CanSplit(tl[IndexOfId(tl, selected)], ct)

\* mutant of SplitStore: the selection stays on the first part
SplitStore_KeepSelection(tl, selected, ct, id) ==
    IF ~SplitApplies(tl, selected, ct)
    THEN [timeline |-> tl, selectedClipId |-> selected]
    ELSE LET clipIndex == IndexOfId(tl, selected)
             clip == tl[clipIndex]
         IN [timeline |-> Splice(tl, clipIndex, SplitPart1(clip, ct),
                                 SplitPart2(clip, ct, id)),
             selectedClipId |-> selected]

\* the clip list and the selection handleSplit leaves behind; id is the new uuid
SplitStore(tl, selected, ct, id) ==
    IF ~SplitApplies(tl, selected, ct)
    THEN [timeline |-> tl, selectedClipId |-> selected]
    ELSE LET clipIndex == IndexOfId(tl, selected)
             clip == tl[clipIndex]
         IN [timeline |-> Splice(tl, clipIndex, SplitPart1(clip, ct),
                                 SplitPart2(clip, ct, id)),
             selectedClipId |-> id]

handleSplit ==
    LET r == SplitStore(timeline, selectedClipId, currentTime, nextId)
    IN IF ~SplitApplies(timeline, selectedClipId, currentTime)
       THEN UNCHANGED vars
       ELSE /\ nextId <= MaxIds
            /\ timeline' = r.timeline
            /\ selectedClipId' = r.selectedClipId
            /\ nextId' = nextId + 1
            /\ lastOp' = "split"
            /\ UNCHANGED outside
            /\ Commit(timeline', assets, currentTime, isPlaying,
                      {selectedClipId, nextId})
            /\ UNCHANGED <<assets, currentTime, isPlaying, dragState, snapLineX,
                           isDraggingHeader, moves>>

----------------------------------------------------------------------------
\* Manipulation state machine (Timeline)

Buttons == {0, 2}
Handles == {"left", "right"}

\* onMouseDown of a clip body
ClipMouseDown(clipId, X, button) ==
    /\ IndexOfId(timeline, clipId) # 0
    /\ IF button # 0
       THEN UNCHANGED vars
       ELSE /\ selectedClipId' = clipId
            /\ dragState' = [clipId |-> clipId, handle |-> "body", startX |-> X,
                             originalClip |-> timeline[IndexOfId(timeline, clipId)]]
            /\ lastOp' = "pressBody"
            /\ UNCHANGED outside
            /\ Commit(timeline, assets, currentTime, isPlaying, {})
            /\ UNCHANGED <<assets, timeline, currentTime, isPlaying, snapLineX,
                           isDraggingHeader, nextId, moves>>

\* mutant of HandleMouseDown: every clip renders its handles
HandleMouseDown_AnyClip(handle, X) ==
    \E clipId \in 1..MaxEditIds :
        /\ IndexOfId(timeline, clipId) # 0
        /\ dragState' = [clipId |-> clipId, handle |-> handle, startX |-> X,
                         originalClip |-> timeline[IndexOfId(timeline, clipId)]]
        /\ lastOp' = "pressHandle"
        /\ UNCHANGED outside
        /\ Commit(timeline, assets, currentTime, isPlaying, {})
        /\ UNCHANGED <<assets, timeline, currentTime, isPlaying, selectedClipId,
                       snapLineX, isDraggingHeader, nextId, moves>>

\* onMouseDown of a trim handle; only the selected clip renders its handles
HandleMouseDown(handle, X) ==
    /\ IndexOfId(timeline, selectedClipId) # 0
    /\ dragState' = [clipId |-> selectedClipId, handle |-> handle, startX |-> X,
                     originalClip |-> timeline[IndexOfId(timeline, selectedClipId)]]
    /\ lastOp' = "pressHandle"
    /\ UNCHANGED outside
    /\ Commit(timeline, assets, currentTime, isPlaying, {})
    /\ UNCHANGED <<assets, timeline, currentTime, isPlaying, selectedClipId,
                   snapLineX, isDraggingHeader, nextId, moves>>

\* the geometry a move may produce is kept within the model's time range
InBounds(updates) ==
    \A f \in DOMAIN updates : updates[f] >= -MaxTime /\ updates[f] <= MaxTime

\* labels of pointer moves: the first move after another event, and a move that
\* directly follows a move of the same drag session
MoveOps == {"move", "moveAgain"}

\* document mousemove listener, attached while dragState is set
handleGlobalMouseMove(X) ==
    /\ dragState # NoDrag
    /\ moves < MaxMoves
    /\ LET deltaTime == PixelsToTime(X - dragState.startX)
           asset == IF IndexOfId(assets, dragState.originalClip.assetId) = 0 THEN NoAsset
                    ELSE assets[IndexOfId(assets, dragState.originalClip.assetId)]
           r == MoveResult(dragState, deltaTime, timeline, currentTime, asset)
       IN IF asset = NoAsset
          THEN UNCHANGED vars
          ELSE /\ InBounds(r.updates)
               /\ snapLineX' = r.snapX
               /\ timeline' = handleUpdateClip(timeline, dragState.clipId, r.updates)
               /\ lastOp' = IF lastOp \in MoveOps THEN "moveAgain" ELSE "move"
               /\ UNCHANGED outside
               /\ moves' = moves + 1
               /\ Commit(timeline', assets, currentTime, isPlaying, {dragState.clipId})
               /\ UNCHANGED <<assets, currentTime, isPlaying, selectedClipId,
                              dragState, isDraggingHeader, nextId>>

\* mutant of handleGlobalMouseUp: the snap indicator survives the release
handleGlobalMouseUp_KeepSnap ==
    /\ dragState # NoDrag
    /\ dragState' = NoDrag
    /\ lastOp' = "release"
    /\ UNCHANGED outside
    /\ Commit(timeline, assets, currentTime, isPlaying, {})
    /\ UNCHANGED <<assets, timeline, currentTime, isPlaying, selectedClipId,
                   snapLineX, isDraggingHeader, nextId, moves>>

\* document mouseup listener, attached while dragState is set
handleGlobalMouseUp ==
    /\ dragState # NoDrag
    /\ dragState' = NoDrag
    /\ snapLineX' = <<>>
    /\ lastOp' = "release"
    /\ UNCHANGED outside
    /\ Commit(timeline, assets, currentTime, isPlaying, {})
    /\ UNCHANGED <<assets, timeline, currentTime, isPlaying, selectedClipId,
                   isDraggingHeader, nextId, moves>>

----------------------------------------------------------------------------
\* Scrub / seek (Timeline.handleTimelineClick, App onSeek)

\* mutant of SeekTime: the Math.max(0, ...) clamp is missing
SeekTime_NoClamp(X, scrollLeft) ==
    PixelsToTime(X - RectLeft + scrollLeft - HEADER_WIDTH)

\* mutant of SeekTime: the clamp is applied before the header is subtracted
SeekTime_ClampContainer(X, scrollLeft) ==
    PixelsToTime(Max(0, X - RectLeft + scrollLeft) - HEADER_WIDTH)

SeekTime(X, scrollLeft) ==
    LET clickX == X - RectLeft + scrollLeft - HEADER_WIDTH
    IN Max(0, PixelsToTime(clickX))

\* whether handleTimelineClick, as rendered in the current state, returns early
ClickIgnored == isDraggingHeader \/ dragState # NoDrag

\* onSeek(newTime) of handleTimelineClick; op names the caller
SeekEffect(X, scrollLeft, op) ==
    /\ currentTime' = SeekTime(X, scrollLeft)
    /\ isPlaying' = FALSE
    /\ lastOp' = op
    /\ UNCHANGED outside
    /\ Commit(timeline, assets, currentTime', FALSE, {})

\* onClick of the playhead & ruler container
handleTimelineClick(X, scrollLeft) ==
    IF ClickIgnored
    THEN UNCHANGED vars
    ELSE /\ SeekEffect(X, scrollLeft, "seek")
         /\ UNCHANGED <<assets, timeline, selectedClipId, dragState, snapLineX,
                        isDraggingHeader, nextId, moves>>

\* onMouseDown of the ruler: setIsDraggingHeader(true); handleTimelineClick(e)
RulerMouseDown(X, scrollLeft) ==
    IF dragState # NoDrag \/ isDraggingHeader
    THEN UNCHANGED vars
    ELSE /\ isDraggingHeader' = TRUE
         /\ SeekEffect(X, scrollLeft, "rulerPress")
         /\ UNCHANGED <<assets, timeline, selectedClipId, dragState, snapLineX,
                        nextId, moves>>

\* onMouseMove of the container: isDraggingHeader && handleTimelineClick(e)
ContainerMouseMove(X, scrollLeft) ==
    /\ isDraggingHeader
    /\ IF ClickIgnored
       THEN UNCHANGED vars
       ELSE /\ SeekEffect(X, scrollLeft, "rulerMove")
            /\ UNCHANGED <<assets, timeline, selectedClipId, dragState, snapLineX,
                           isDraggingHeader, nextId, moves>>

\* currentTime after the container's onMouseMove at pointer X
ContainerMoveTime(X, scrollLeft) ==
    IF isDraggingHeader /\ ~ClickIgnored THEN SeekTime(X, scrollLeft) ELSE currentTime

\* onMouseUp / onMouseLeave of the container
ContainerMouseUp ==
    /\ isDraggingHeader
    /\ isDraggingHeader' = FALSE
    /\ lastOp' = "rulerRelease"
    /\ UNCHANGED outside
    /\ Commit(timeline, assets, currentTime, isPlaying, {})
    /\ UNCHANGED <<assets, timeline, currentTime, isPlaying, selectedClipId,
                   dragState, snapLineX, nextId, moves>>

----------------------------------------------------------------------------
\* Playback clock (App)

togglePlay ==
    /\ isPlaying' = ~isPlaying
    /\ lastOp' = "togglePlay"
    /\ UNCHANGED outside
    /\ Commit(timeline, assets, currentTime, isPlaying', {})
    /\ UNCHANGED <<assets, timeline, currentTime, selectedClipId, dragState,
                   snapLineX, isDraggingHeader, nextId, moves>>

SkipBack ==
    /\ currentTime' = 0
    /\ lastOp' = "skipBack"
    /\ UNCHANGED outside
    /\ Commit(timeline, assets, 0, isPlaying, {})
    /\ UNCHANGED <<assets, timeline, isPlaying, selectedClipId, dragState,
                   snapLineX, isDraggingHeader, nextId, moves>>

SkipForward ==
    /\ currentTime' = totalDuration
    /\ lastOp' = "skipForward"
    /\ UNCHANGED outside
    /\ Commit(timeline, assets, totalDuration, isPlaying, {})
    /\ UNCHANGED <<assets, timeline, isPlaying, selectedClipId, dragState,
                   snapLineX, isDraggingHeader, nextId, moves>>

\* mutant of ReachesEnd: a frame landing exactly on the end does not stop
ReachesEnd_Strict(next, total) == next > total /\ total > 0

\* whether the frame reaches the end of the project
ReachesEnd(next, total) == next >= total /\ total > 0

\* one animation frame of the Main Loop, delta time units after the previous one
Tick(delta) ==
    LET next == currentTime + delta
        stop == ReachesEnd(next, totalDuration)
    IN /\ isPlaying
       /\ (stop \/ next <= MaxTime)
       /\ currentTime' = IF stop THEN totalDuration ELSE next
       /\ isPlaying' = IF stop THEN FALSE ELSE isPlaying
       /\ lastOp' = "tick"
       /\ UNCHANGED outside
       /\ Commit(timeline, assets, currentTime', isPlaying', {})
       /\ UNCHANGED <<assets, timeline, selectedClipId, dragState, snapLineX,
                      isDraggingHeader, nextId, moves>>

\* a playing media element advances by itself between two handlers
SinkAdvance(tr, d) ==
    /\ sinks[tr].mounted
    /\ ~sinks[tr].paused
    /\ ~sinks[tr].loading
    /\ IndexOfId(assets, sinks[tr].src) # 0
    /\ sinks[tr].pos + d <= assets[IndexOfId(assets, sinks[tr].src)].duration
    /\ sinks' = [sinks EXCEPT ![tr].pos = sinks[tr].pos + d]
    /\ lastOp' = "sinkAdvance"
    /\ UNCHANGED outside
    /\ UNCHANGED <<assets, timeline, currentTime, isPlaying, selectedClipId,
                   dragState, snapLineX, isDraggingHeader, nextId, moves>>

\* the browser finished loading the element's source (loadedmetadata); the
\* App registers no handler for it
LoadComplete(tr) ==
    /\ sinks[tr].mounted
    /\ sinks[tr].loading
    /\ sinks' = [sinks EXCEPT ![tr].loading = FALSE]
    /\ lastOp' = "loaded"
    /\ UNCHANGED outside
    /\ UNCHANGED <<assets, timeline, currentTime, isPlaying, selectedClipId,
                   dragState, snapLineX, isDraggingHeader, nextId, moves>>

----------------------------------------------------------------------------
\* Single-track App (src/App.tsx): one <video>, rendered while the active asset
\* is a video, synchronised by the "Sync Video Element" effect

\* project.timeline.find(clip => currentTime >= start && currentTime < end)
LegacyActiveClip(tl, t) ==
    LET hits == {i \in 1..Len(tl) :
                    t >= tl[i].startOffset /\ t < tl[i].startOffset + tl[i].duration}
    IN IF hits = {} THEN NoClip
       ELSE tl[CHOOSE i \in hits : \A j \in hits : i <= j]

LegacyRender(el, asset) ==
    IF asset # NoAsset /\ asset.type = VIDEO
    THEN (IF el.mounted THEN el ELSE LegacyFresh)
    ELSE LegacyUnmounted

\* body of the Sync Video Element effect
LegacySync(el, clip, asset, ct, playing) ==
    IF ~el.mounted \/ clip = NoClip \/ asset = NoAsset \/ asset.type # VIDEO THEN el
    ELSE LET target == clip.mediaStart + (ct - clip.startOffset)
         IN IF el.src # asset.src
            THEN \* video.src = activeAsset.src; video.onloadedmetadata = () => {...}
                 [el EXCEPT !.src = asset.src, !.pos = 0, !.paused = TRUE,
                            !.loading = TRUE,
                            !.onloadedmetadata =
                                [set |-> TRUE, target |-> target, play |-> playing]]
            ELSE IF NeedsSeek(el.pos, target) THEN [el EXCEPT !.pos = target]
            ELSE el

\* render and effects of the single-track App after a handler set its state:
\* the sync effect (deps activeClip, activeAsset, currentTime, isPlaying), then
\* the Main Loop effect, which pauses the video when isPlaying turned false
LegacyCommit(tl2, as2, ct2, playing2) ==
    LET clip == LegacyActiveClip(tl2, ct2)
        asset == getAsset(as2, clip)
        before == LegacyActiveClip(timeline, currentTime)
        rendered == LegacyRender(legacyVideo, asset)
        syncRuns == \/ clip # before
                    \/ asset # getAsset(assets, before)
                    \/ ct2 # currentTime
                    \/ playing2 # isPlaying
        synced == IF syncRuns THEN LegacySync(rendered, clip, asset, ct2, playing2)
                  ELSE rendered
        loopRuns == \/ playing2 # isPlaying
                    \/ totalDurationOf(tl2) # totalDurationOf(timeline)
    IN legacyVideo' = IF loopRuns /\ ~playing2 /\ synced.mounted
                      THEN [synced EXCEPT !.paused = TRUE]
                      ELSE synced

\* a handler of the single-track App that leaves the given state behind
LegacyHandler(tl2, as2, ct2, playing2, id2, op) ==
    /\ timeline' = tl2
    /\ assets' = as2
    /\ currentTime' = ct2
    /\ isPlaying' = playing2
    /\ nextId' = id2
    /\ lastOp' = op
    /\ LegacyCommit(tl2, as2, ct2, playing2)
    /\ UNCHANGED <<selectedClipId, dragState, snapLineX, isDraggingHeader, sinks,
                   moves, isGenerating, genPending, storage, handsOff>>

LegacyAddAsset(a) ==
    /\ Len(assets) < MaxAssets
    /\ LegacyHandler(timeline,
                     Append(assets, [id |-> Len(assets) + 1, type |-> a.type,
                                     src |-> Len(assets) + 1, duration |-> a.duration]),
                     currentTime, isPlaying, nextId, "legacyAddAsset")

\* App.tsx handleAddToTimeline: after the last clip of the store, track 0
LegacyAddToTimeline(assetId) ==
    LET asset == IF IndexOfId(assets, assetId) = 0 THEN NoAsset
                 ELSE assets[IndexOfId(assets, assetId)]
        startOffset == IF Len(timeline) > 0
                       THEN timeline[Len(timeline)].startOffset
                              + timeline[Len(timeline)].duration
                       ELSE 0
    IN IF asset = NoAsset
       THEN UNCHANGED vars
       ELSE LegacyHandler(Append(timeline,
                                 [id |-> nextId, assetId |-> asset.id,
                                  startOffset |-> startOffset, mediaStart |-> 0,
                                  duration |-> asset.duration, trackIndex |-> 0]),
                          assets, currentTime, isPlaying, nextId + 1,
                          "legacyAddToTimeline")

LegacyTogglePlay ==
    LegacyHandler(timeline, assets, currentTime, ~isPlaying, nextId, "legacyTogglePlay")

LegacySkipBack ==
    /\ currentTime # 0
    /\ LegacyHandler(timeline, assets, 0, isPlaying, nextId, "legacySkipBack")

LegacyTick(delta) ==
    LET next == currentTime + delta
        stop == ReachesEnd(next, totalDuration)
    IN /\ isPlaying
       /\ (stop \/ next <= MaxTime)
       /\ LegacyHandler(timeline, assets, IF stop THEN totalDuration ELSE next,
                        IF stop THEN FALSE ELSE isPlaying, nextId, "legacyTick")

\* the loadedmetadata event of the <video>: the registered handler runs
LegacyLoaded ==
    /\ legacyVideo.mounted
    /\ legacyVideo.loading
    /\ legacyVideo' =
          IF legacyVideo.onloadedmetadata.set
          THEN [legacyVideo EXCEPT
                    !.loading = FALSE,
                    !.pos = legacyVideo.onloadedmetadata.target,
                    !.paused = IF legacyVideo.onloadedmetadata.play THEN FALSE ELSE @]
          ELSE [legacyVideo EXCEPT !.loading = FALSE]
    /\ lastOp' = "loadedmetadata"
    /\ UNCHANGED <<assets, timeline, currentTime, isPlaying, selectedClipId,
                   dragState, snapLineX, isDraggingHeader, sinks, nextId, moves,
                   isGenerating, genPending, storage, handsOff>>

----------------------------------------------------------------------------

\* no drag session is open: the pointer's button is up
PointerFree == dragState = NoDrag

\* clip store only, one pointer: asset library, add, select, seek, split, delete
NextStore ==
    \/ PointerFree /\ \E a \in EditAssets : handleAddAsset(a)
    \/ PointerFree /\ \E assetId \in 1..MaxAssets : handleAddToTimeline(assetId)
    \/ PointerFree /\ handleDeleteClip(selectedClipId)
    \/ PointerFree /\ handleSplit
    \/ PointerFree /\ \E clipId \in 1..MaxIds, X \in PressXs, b \in Buttons :
                         ClipMouseDown(clipId, X, b)
    \/ PointerFree /\ \E X \in SeekXs, sl \in ScrollLefts : handleTimelineClick(X, sl)
    \/ handleGlobalMouseUp

SpecStore == Init /\ [][NextStore]_vars

\* editing with one pointer: a press, its moves and its release, then the next
\* press or click
NextDrag ==
    \/ PointerFree /\ \E a \in EditAssets : handleAddAsset(a)
    \/ PointerFree /\ nextId <= MaxEditIds
          /\ \E assetId \in 1..MaxAssets : handleAddToTimeline(assetId)
    \/ PointerFree /\ handleDeleteClip(selectedClipId)
    \/ PointerFree /\ nextId <= MaxEditIds /\ handleSplit
    \/ PointerFree /\ \E clipId \in 1..MaxEditIds, X \in PressXs, b \in Buttons :
                         ClipMouseDown(clipId, X, b)
    \/ PointerFree /\ \E h \in Handles, X \in PressXs : HandleMouseDown(h, X)
    \/ PointerFree /\ \E X \in SeekXs, sl \in ScrollLefts : handleTimelineClick(X, sl)
    \/ \E X \in MoveXs : handleGlobalMouseMove(X)
    \/ handleGlobalMouseUp

SpecDrag == Init /\ [][NextDrag]_vars

\* editing, any event at any time: presses, toolbar clicks and seeks may arrive
\* while a drag session is open (a second button or pointer, a lost mouseup)
NextEdit ==
    \/ \E a \in EditAssets : handleAddAsset(a)
    \/ nextId <= MaxEditIds /\ \E assetId \in 1..MaxAssets : handleAddToTimeline(assetId)
    \/ handleDeleteClip(selectedClipId)
    \/ nextId <= MaxEditIds /\ handleSplit
    \/ \E clipId \in 1..MaxEditIds, X \in PressXs, b \in Buttons : ClipMouseDown(clipId, X, b)
    \/ \E h \in Handles, X \in PressXs : HandleMouseDown(h, X)
    \/ \E X \in MoveXs : handleGlobalMouseMove(X)
    \/ handleGlobalMouseUp
    \/ \E X \in SeekXs, sl \in ScrollLefts : handleTimelineClick(X, sl)

SpecEdit == Init /\ [][NextEdit]_vars

\* appending: every kind of asset, up to MaxIds clips, body drags with one pointer
NextAppend ==
    \/ PointerFree /\ \E a \in NewAssets : handleAddAsset(a)
    \/ PointerFree /\ \E assetId \in 1..MaxAssets : handleAddToTimeline(assetId)
    \/ PointerFree /\ \E clipId \in 1..MaxIds, X \in PressXs, b \in Buttons :
                            ClipMouseDown(clipId, X, b)
    \/ \E X \in MoveXs : handleGlobalMouseMove(X)
    \/ handleGlobalMouseUp

SpecAppend == Init /\ [][NextAppend]_vars

\* scrubbing: ruler presses, moves and releases over the container, clicks,
\* clip and handle presses and the play button, any event at any time
ScrubScrolls == {0, 40}

NextScrub ==
    \/ \E a \in EditAssets : handleAddAsset(a)
    \/ nextId <= MaxEditIds /\ \E assetId \in 1..MaxAssets : handleAddToTimeline(assetId)
    \/ \E clipId \in 1..MaxEditIds, X \in PressXs, b \in Buttons : ClipMouseDown(clipId, X, b)
    \/ \E h \in Handles, X \in PressXs : HandleMouseDown(h, X)
    \/ handleGlobalMouseUp
    \/ \E X \in SeekXs, sl \in ScrubScrolls : handleTimelineClick(X, sl)
    \/ \E X \in SeekXs, sl \in ScrubScrolls : RulerMouseDown(X, sl)
    \/ \E X \in SeekXs, sl \in ScrubScrolls : ContainerMouseMove(X, sl)
    \/ ContainerMouseUp
    \/ togglePlay

SpecScrub == Init /\ [][NextScrub]_vars

\* playback: import, add, seek, transport buttons, animation frames, sinks
PlayAssets == {a \in NewAssets : a.type \in {VIDEO, AUDIO, IMAGE}}

NextPlay ==
    \/ \E a \in PlayAssets : handleAddAsset(a)
    \/ nextId <= MaxEditIds /\ \E assetId \in 1..MaxAssets : handleAddToTimeline(assetId)
    \/ \E X \in SeekXs, sl \in ScrollLefts : handleTimelineClick(X, sl)
    \/ togglePlay
    \/ SkipBack
    \/ SkipForward
    \/ \E d \in TickDeltas : Tick(d)
    \/ \E tr \in SinkTracks, d \in SinkDeltas : SinkAdvance(tr, d)
    \/ \E tr \in SinkTracks : LoadComplete(tr)

SpecPlay == Init /\ [][NextPlay]_vars

\* playback while editing: body drags and deletes move clips under the playhead
SyncAssets == {a \in NewAssets : a.type \in {VIDEO, AUDIO}}
SyncTickDeltas == {40}

NextSync ==
    \/ PointerFree /\ \E a \in SyncAssets : handleAddAsset(a)
    \/ PointerFree /\ nextId <= MaxEditIds
                   /\ \E assetId \in 1..MaxAssets : handleAddToTimeline(assetId)
    \/ PointerFree /\ \E clipId \in 1..MaxEditIds, X \in PressXs, b \in Buttons :
                            ClipMouseDown(clipId, X, b)
    \/ \E X \in MoveXs : handleGlobalMouseMove(X)
    \/ handleGlobalMouseUp
    \/ PointerFree /\ handleDeleteClip(selectedClipId)
    \/ togglePlay
    \/ \E d \in SyncTickDeltas : Tick(d)
    \/ \E tr \in SinkTracks : LoadComplete(tr)

SpecSync == Init /\ [][NextSync]_vars

\* the playhead under every writer of currentTime, with clip mutations between
\* them; one pointer: a clip drag or a ruler drag, then the next press or click
ClockTickDeltas == {0, 40}
ClockSeekXs == {150, 240}
ClockMoveXs == {20, 180}
PointerIdle == dragState = NoDrag /\ ~isDraggingHeader

NextClock ==
    \/ PointerIdle /\ \E a \in EditAssets : handleAddAsset(a)
    \/ PointerIdle /\ nextId <= MaxEditIds
                   /\ \E assetId \in 1..MaxAssets : handleAddToTimeline(assetId)
    \/ PointerIdle /\ handleDeleteClip(selectedClipId)
    \/ PointerIdle /\ nextId <= MaxEditIds /\ handleSplit
    \/ PointerIdle /\ \E clipId \in 1..MaxEditIds, X \in PressXs, b \in Buttons :
                         ClipMouseDown(clipId, X, b)
    \/ PointerIdle /\ \E h \in Handles, X \in PressXs : HandleMouseDown(h, X)
    \/ \E X \in ClockMoveXs : handleGlobalMouseMove(X)
    \/ handleGlobalMouseUp
    \/ PointerIdle /\ \E X \in ClockSeekXs, sl \in ScrollLefts : handleTimelineClick(X, sl)
    \/ PointerIdle /\ \E X \in ClockSeekXs, sl \in ScrollLefts : RulerMouseDown(X, sl)
    \/ \E X \in ClockSeekXs, sl \in ScrollLefts : ContainerMouseMove(X, sl)
    \/ ContainerMouseUp
    \/ togglePlay
    \/ SkipBack
    \/ SkipForward
    \/ \E d \in ClockTickDeltas : Tick(d)

SpecClock == Init /\ [][NextClock]_vars

\* playback left to itself: the user builds a timeline, seeks, presses Play and
\* then gives no further input, while animation frames keep arriving
StopSeekXs == {150, 240, 440}
StopTickDeltas == {12, 40}

\* from here on no handler is triggered by the user
LetGo ==
    /\ ~handsOff
    /\ handsOff' = TRUE
    /\ UNCHANGED <<assets, timeline, currentTime, isPlaying, selectedClipId,
                   dragState, snapLineX, isDraggingHeader, sinks, nextId, moves,
                   lastOp, isGenerating, genPending, storage, legacyVideo>>

\* requestAnimationFrame(loop): a frame with a positive delta
PlaybackFrame == \E d \in StopTickDeltas : Tick(d)

NextStop ==
    \/ ~handsOff /\ \E a \in SyncAssets : handleAddAsset(a)
    \/ ~handsOff /\ nextId <= MaxEditIds
                 /\ \E assetId \in 1..MaxAssets : handleAddToTimeline(assetId)
    \/ ~handsOff /\ \E X \in StopSeekXs, sl \in ScrollLefts : handleTimelineClick(X, sl)
    \/ ~handsOff /\ togglePlay
    \/ ~handsOff /\ SkipBack
    \/ ~handsOff /\ SkipForward
    \/ LetGo
    \/ PlaybackFrame

\* the loop re-registers itself on every frame while isPlaying is true
SpecStop == Init /\ [][NextStop]_vars /\ WF_vars(PlaybackFrame)

\* editing with one pointer, the pointer coming back to where it was pressed;
\* clips come from add-to-timeline only, so every clip has the minimum duration
NeutralMoveXs == {90, 100, 180}

NextNeutral ==
    \/ PointerFree /\ \E a \in EditAssets : handleAddAsset(a)
    \/ PointerFree /\ nextId <= MaxEditIds
          /\ \E assetId \in 1..MaxAssets : handleAddToTimeline(assetId)
    \/ PointerFree /\ \E clipId \in 1..MaxEditIds, X \in PressXs, b \in Buttons :
                         ClipMouseDown(clipId, X, b)
    \/ PointerFree /\ \E h \in Handles, X \in PressXs : HandleMouseDown(h, X)
    \/ PointerFree /\ \E X \in SeekXs, sl \in ScrubScrolls : handleTimelineClick(X, sl)
    \/ \E X \in NeutralMoveXs : handleGlobalMouseMove(X)
    \/ handleGlobalMouseUp

SpecNeutral == Init /\ [][NextNeutral]_vars

\* editing clips of every kind of asset with one pointer
NextTracks ==
    \/ PointerFree /\ \E a \in NewAssets : handleAddAsset(a)
    \/ PointerFree /\ nextId <= MaxEditIds
          /\ \E assetId \in 1..MaxAssets : handleAddToTimeline(assetId)
    \/ PointerFree /\ handleDeleteClip(selectedClipId)
    \/ PointerFree /\ nextId <= MaxEditIds /\ handleSplit
    \/ PointerFree /\ \E clipId \in 1..MaxEditIds, X \in PressXs, b \in Buttons :
                         ClipMouseDown(clipId, X, b)
    \/ PointerFree /\ \E h \in Handles, X \in PressXs : HandleMouseDown(h, X)
    \/ PointerFree /\ \E X \in SeekXs, sl \in ScrollLefts : handleTimelineClick(X, sl)
    \/ \E X \in MoveXs : handleGlobalMouseMove(X)
    \/ handleGlobalMouseUp

SpecTracks == Init /\ [][NextTracks]_vars

\* saving between edits of the store
NextPersist ==
    \/ PointerFree /\ \E a \in EditAssets : handleAddAsset(a)
    \/ PointerFree /\ \E assetId \in 1..MaxAssets : handleAddToTimeline(assetId)
    \/ PointerFree /\ \E clipId \in 1..MaxIds, X \in PressXs, b \in Buttons :
                            ClipMouseDown(clipId, X, b)
    \/ handleGlobalMouseUp
    \/ PointerFree /\ handleDeleteClip(selectedClipId)
    \/ \E setItemFails \in BOOLEAN : SaveClick(setItemFails)

SpecPersist == Init /\ [][NextPersist]_vars

\* asset library: imports, AI generation, add-to-timeline, while the editor
\* is used (seeks, play/pause)
NextGenerate ==
    \/ \E a \in NewAssets : handleAddAsset(a)
    \/ \E assetId \in 1..MaxAssets : handleAddToTimeline(assetId)
    \/ \E promptBlank \in BOOLEAN : handleGenerateAI(promptBlank)
    \/ \E outcome \in GenOutcomes : GenerateSettles(outcome)
    \/ \E X \in SeekXs, sl \in ScrollLefts : handleTimelineClick(X, sl)
    \/ togglePlay

SpecGenerate == Init /\ [][NextGenerate]_vars

\* a project whose first clip references an asset that is not in the asset
\* list (the persisted form of a project keeps the clips and drops the assets)
DanglingAssetId == MaxAssets + 1

DanglingClips ==
    {[id |-> 1, assetId |-> DanglingAssetId, startOffset |-> 0, mediaStart |-> 0,
      duration |-> d, trackIndex |-> tr] : d \in MediaDurations, tr \in {0, 3}}

InitDangling ==
    /\ assets = <<>>
    /\ timeline \in {<<c>> : c \in DanglingClips}
    /\ currentTime = 0
    /\ isPlaying = FALSE
    /\ selectedClipId = 0
    /\ dragState = NoDrag
    /\ snapLineX = <<>>
    /\ isDraggingHeader = FALSE
    /\ sinks = [tr \in SinkTracks |-> IF tr = 3 THEN FreshElement ELSE Unmounted]
    /\ nextId = 2
    /\ moves = 0
    /\ lastOp = "init"
    /\ isGenerating = FALSE
    /\ genPending = FALSE
    /\ storage = <<>>
    /\ legacyVideo = LegacyUnmounted
    /\ handsOff = FALSE

NextDangling ==
    \/ PointerFree /\ \E a \in SyncAssets : handleAddAsset(a)
    \/ PointerFree /\ nextId <= MaxEditIds
                   /\ \E assetId \in 1..MaxAssets : handleAddToTimeline(assetId)
    \/ PointerFree /\ \E clipId \in 1..MaxEditIds, X \in PressXs, b \in Buttons :
                            ClipMouseDown(clipId, X, b)
    \/ PointerFree /\ \E h \in Handles, X \in PressXs : HandleMouseDown(h, X)
    \/ \E X \in MoveXs : handleGlobalMouseMove(X)
    \/ handleGlobalMouseUp
    \/ togglePlay
    \/ \E d \in SyncTickDeltas : Tick(d)
    \/ \E tr \in SinkTracks : LoadComplete(tr)

SpecDangling == InitDangling /\ [][NextDangling]_vars

\* the single-track App: import, add, transport buttons, frames, load completion
LegacyAssets == {a \in NewAssets : a.type \in {VIDEO, IMAGE}}

NextLegacy ==
    \/ \E a \in LegacyAssets : LegacyAddAsset(a)
    \/ nextId <= MaxIds /\ \E assetId \in 1..MaxAssets : LegacyAddToTimeline(assetId)
    \/ LegacyTogglePlay
    \/ LegacySkipBack
    \/ \E d \in TickDeltas : LegacyTick(d)
    \/ LegacyLoaded

SpecLegacy == Init /\ [][NextLegacy]_vars

Next ==
    \/ \E a \in NewAssets : handleAddAsset(a)
    \/ \E assetId \in 1..MaxAssets : handleAddToTimeline(assetId)
    \/ handleDeleteClip(selectedClipId)
    \/ handleSplit
    \/ \E clipId \in 1..MaxIds, X \in PressXs, b \in Buttons : ClipMouseDown(clipId, X, b)
    \/ \E h \in Handles, X \in PressXs : HandleMouseDown(h, X)
    \/ \E X \in MoveXs : handleGlobalMouseMove(X)
    \/ handleGlobalMouseUp
    \/ \E X \in SeekXs, sl \in ScrollLefts : handleTimelineClick(X, sl)
    \/ \E X \in SeekXs, sl \in ScrollLefts : RulerMouseDown(X, sl)
    \/ \E X \in SeekXs, sl \in ScrollLefts : ContainerMouseMove(X, sl)
    \/ ContainerMouseUp
    \/ togglePlay
    \/ SkipBack
    \/ SkipForward
    \/ \E d \in TickDeltas : Tick(d)
    \/ \E tr \in SinkTracks, d \in SinkDeltas : SinkAdvance(tr, d)
    \/ \E tr \in SinkTracks : LoadComplete(tr)

Spec == Init /\ [][Next]_vars

----------------------------------------------------------------------------
\* Clip invariants

AssetOf(clip) == getAsset(assets, clip)

\* C1: every clip of the store has duration >= MIN_CLIP_DURATION (0.5 s),
\* after any sequence of add-to-timeline, drag, trim, split and delete.
C1_MinDuration ==
    \A i \in 1..Len(timeline) : timeline[i].duration >= MIN_CLIP_DURATION

\* C2: every clip of the store has startOffset >= 0.  The stores looked at are
\* those whose clips all have duration >= MIN_CLIP_DURATION and mediaStart >= 0,
\* so that a negative startOffset found here is not the trace of a clip that was
\* malformed already.
C2_StartOffsetNonNegative ==
    (\A i \in 1..Len(timeline) :
        timeline[i].duration >= MIN_CLIP_DURATION /\ timeline[i].mediaStart >= 0)
    => \A i \in 1..Len(timeline) : timeline[i].startOffset >= 0

\* C3: every clip of the store has mediaStart >= 0.
C3_MediaStartNonNegative ==
    \A i \in 1..Len(timeline) : timeline[i].mediaStart >= 0

\* C4: every clip whose asset is video or audio satisfies
\* mediaStart + duration <= asset.duration: it never plays past the end of its source.
C4_WithinAsset ==
    \A i \in 1..Len(timeline) :
        IsTimeBounded(AssetOf(timeline[i])) =>
            timeline[i].mediaStart + timeline[i].duration <= AssetOf(timeline[i]).duration

\* C4 witness: a right-handle move lengthened a trimmed video clip up to the
\* very end of its source
C4_Witness ==
    /\ lastOp = "move"
    /\ dragState.handle = "right"
    /\ \E i \in 1..Len(timeline) :
          /\ timeline[i].id = dragState.clipId
          /\ AssetOf(timeline[i]).type = VIDEO
          /\ timeline[i].mediaStart > 0
          /\ timeline[i].duration > dragState.originalClip.duration
          /\ timeline[i].mediaStart + timeline[i].duration = AssetOf(timeline[i]).duration

----------------------------------------------------------------------------
\* Split

\* C5: a successful split of the selected clip at the playhead t replaces it, in
\* place, by exactly two clips: part1 keeps id, startOffset and mediaStart and has
\* duration t - startOffset; part2 starts at t with mediaStart and duration shifted
\* by t - startOffset; both keep trackIndex and assetId; the durations add up to
\* the original's, and every other clip is unchanged.
C5_SplitCorrect ==
    [][lastOp' = "split" =>
        LET k == IndexOfId(timeline, selectedClipId)
            original == timeline[k]
            t == currentTime
            part1 == timeline'[k]
            part2 == timeline'[k + 1]
        IN /\ k # 0
           /\ original.startOffset < t /\ t < original.startOffset + original.duration
           /\ Len(timeline') = Len(timeline) + 1
           /\ part1.id = original.id
           /\ part1.startOffset = original.startOffset
           /\ part1.mediaStart = original.mediaStart
           /\ part1.duration = t - original.startOffset
           /\ part2.id # original.id
           /\ part2.startOffset = t
           /\ part2.mediaStart = original.mediaStart + (t - original.startOffset)
           /\ part2.duration = original.duration - (t - original.startOffset)
           /\ part1.trackIndex = original.trackIndex /\ part1.assetId = original.assetId
           /\ part2.trackIndex = original.trackIndex /\ part2.assetId = original.assetId
           /\ part1.duration + part2.duration = original.duration
           /\ part2.mediaStart = original.mediaStart + part1.duration
           /\ \A i \in 1..(k - 1) : timeline'[i] = timeline[i]
           /\ \A i \in (k + 1)..Len(timeline) : timeline'[i + 1] = timeline[i]
    ]_vars

\* C5 witness: a split has just cut a clip that already started inside its
\* source, with other clips in the store
C5_Witness ==
    /\ lastOp = "split"
    /\ Len(timeline) = 3
    /\ \E i \in 2..Len(timeline) :
          /\ timeline[i].id = selectedClipId
          /\ timeline[i - 1].mediaStart > 0
          /\ timeline[i].mediaStart = timeline[i - 1].mediaStart + timeline[i - 1].duration

\* C6: when no clip is selected, the selected id is not in the store, or the
\* playhead is not strictly inside the selected clip (the edges included), a
\* split leaves the clip list and the selection as they are; it never writes the
\* playhead or the play state.
C6_SplitNoOp ==
    LET k == IndexOfId(timeline, selectedClipId)
        applicable == /\ selectedClipId # 0
                      /\ k # 0
                      /\ timeline[k].startOffset < currentTime
                      /\ currentTime < timeline[k].startOffset + timeline[k].duration
    IN ~applicable =>
          \A id \in 1..(MaxIds + 1) :
              SplitStore(timeline, selectedClipId, currentTime, id)
                  = [timeline |-> timeline, selectedClipId |-> selectedClipId]

\* C6 witness: a clip is selected and the playhead sits exactly on its end
C6_Witness ==
    /\ selectedClipId # 0
    /\ dragState = NoDrag
    /\ \E i \in 1..Len(timeline) :
          /\ timeline[i].id = selectedClipId
          /\ currentTime = timeline[i].startOffset + timeline[i].duration
          /\ currentTime > 0

----------------------------------------------------------------------------
\* Snapping

\* the start and end of every clip of the store
AllEdges ==
    {timeline[i].startOffset : i \in 1..Len(timeline)}
        \cup {timeline[i].startOffset + timeline[i].duration : i \in 1..Len(timeline)}

\* the snap candidates of a drag of clip excludeClipId
SnapCandidates(excludeClipId) ==
    {0, currentTime}
        \cup {timeline[i].startOffset :
                 i \in {j \in 1..Len(timeline) : timeline[j].id # excludeClipId}}
        \cup {timeline[i].startOffset + timeline[i].duration :
                 i \in {j \in 1..Len(timeline) : timeline[j].id # excludeClipId}}

\* distances from a candidate or edge at which a proposed time is probed: on it,
\* halfway to a neighbour, and just inside, on and just outside the threshold
SnapProbeOffsets ==
    {0, 5, SnapThresholdTime - 1, SnapThresholdTime, SnapThresholdTime + 1}

SnapProbes ==
    {base + off : base \in {0, currentTime} \cup AllEdges, off \in SnapProbeOffsets}
        \cup {base - off : base \in {0, currentTime} \cup AllEdges, off \in SnapProbeOffsets}

\* C7: during a drag of clip excludeClipId, getSnapTime(proposedTime, excludeClipId)
\* returns (proposedTime, snapped = false) when no candidate (0, currentTime, the
\* start or end of another clip) is closer than SNAP_THRESHOLD_PX / PIXELS_PER_SECOND
\* to proposedTime; otherwise it returns (c, snapped = true) with c a candidate
\* nearest to proposedTime, hence within the threshold and taken from the
\* candidates, which leave out the edges of the excluded clip itself.
C7_SnapResolution ==
    dragState # NoDrag =>
        \A proposedTime \in SnapProbes :
            LET r == getSnapTime(proposedTime, dragState.clipId, timeline, currentTime)
                candidates == SnapCandidates(dragState.clipId)
                near == {c \in candidates : Abs(proposedTime - c) < SnapThresholdTime}
            IN IF near = {}
               THEN r = [time |-> proposedTime, snapped |-> FALSE]
               ELSE /\ r.snapped
                    /\ r.time \in candidates
                    /\ \A c \in candidates :
                          Abs(proposedTime - r.time) <= Abs(proposedTime - c)
                    /\ Abs(proposedTime - r.time) <= SnapThresholdTime

\* C7 witness: a move of the dragged clip has snapped onto an edge of another clip
C7_Witness ==
    /\ lastOp = "move"
    /\ snapLineX # <<>>
    /\ Len(timeline) = 2
    /\ snapLineX[1] \notin {0, TimeToPixels(currentTime)}
    /\ \E i \in 1..Len(timeline) :
          /\ timeline[i].id # dragState.clipId
          /\ snapLineX[1] \in {TimeToPixels(timeline[i].startOffset),
                                TimeToPixels(timeline[i].startOffset + timeline[i].duration)}

----------------------------------------------------------------------------
\* Playback

\* C8: in a sync pass for a sink whose track has an active video or audio clip,
\* the sink is seeked to target = clip.mediaStart + (currentTime - clip.startOffset)
\* exactly when its position differs from target by more than 0.3 s; a difference
\* of 0.3 s or less leaves the position untouched.  A pass runs when the playhead,
\* the play state or the track's active clip changed; the position it compares is
\* the element's, which is 0 after a (re)load of the source.
C8_DriftCorrection ==
    [][\A tr \in SinkTracks :
        LET clip == getActiveClip(timeline', tr, currentTime')
            asset == getAsset(assets', clip)
            pass == \/ currentTime' # currentTime
                    \/ isPlaying' # isPlaying
                    \/ clip # getActiveClip(timeline, tr, currentTime)
            position == IF sinks[tr].mounted /\ sinks[tr].src = asset.src
                        THEN sinks[tr].pos ELSE 0
            target == clip.mediaStart + (currentTime' - clip.startOffset)
        IN (pass /\ clip # NoClip /\ asset.type \in {VIDEO, AUDIO} /\ sinks'[tr].mounted)
              => IF Abs(position - target) > SyncTolerance
                 THEN sinks'[tr].pos = target
                 ELSE sinks'[tr].pos = position
    ]_vars

\* C8 witness: a pass triggered by the play button found the main video exactly
\* 0.3 s away from its target and left it there
C8_Witness ==
    LET clip == getActiveClip(timeline, 0, currentTime)
        target == clip.mediaStart + (currentTime - clip.startOffset)
    IN /\ lastOp = "togglePlay"
       /\ clip # NoClip
       /\ getAsset(assets, clip).type = VIDEO
       /\ sinks[0].mounted
       /\ sinks[0].src = getAsset(assets, clip).src
       /\ Abs(sinks[0].pos - target) = SyncTolerance

\* the largest startOffset + duration of the store, 0 when it is empty
ProjectEnd ==
    LET ends == {timeline[i].startOffset + timeline[i].duration : i \in 1..Len(timeline)}
    IN IF ends = {} THEN 0 ELSE CHOOSE m \in ends : \A e \in ends : e <= m

\* C9: a playback tick with delta >= 0 while playing: if currentTime + delta >=
\* totalDuration and totalDuration > 0, currentTime becomes exactly totalDuration
\* and isPlaying becomes false; otherwise currentTime becomes currentTime + delta
\* and isPlaying stays true.  The tick changes neither the clip store nor the
\* selection.
C9_TickSemantics ==
    [][lastOp' = "tick" =>
        /\ isPlaying
        /\ \E delta \in TickDeltas :
              /\ delta >= 0
              /\ IF currentTime + delta >= ProjectEnd /\ ProjectEnd > 0
                 THEN currentTime' = ProjectEnd /\ ~isPlaying'
                 ELSE currentTime' = currentTime + delta /\ isPlaying'
        /\ timeline' = timeline
        /\ assets' = assets
        /\ selectedClipId' = selectedClipId
    ]_vars

\* C9 witness: a tick has stopped playback at the end of a non-empty project
C9_Witness ==
    /\ lastOp = "tick"
    /\ ~isPlaying
    /\ timeline # <<>>
    /\ currentTime = ProjectEnd
    /\ currentTime > 0

----------------------------------------------------------------------------
\* Manipulation state machine

\* C10: only one drag session exists at a time: from the press that starts a
\* drag until the release, a further press on a clip body or on a trim handle
\* leaves the session's clipId, handle, anchor position and original clip
\* snapshot unchanged.
C10_SingleDragSession ==
    [][(dragState # NoDrag /\ lastOp' \in {"pressBody", "pressHandle"})
          => dragState' = dragState]_vars

----------------------------------------------------------------------------
\* C11: a pointer move that follows another move of the same drag leaves the
\* dragged clip exactly where a single move from the press-time state to the
\* same pointer position would: the update is the transform of the press-time
\* snapshot by the total delta, merged into the clip.
DirectMove(X) ==
    LET ds == dragState
        pressTimeline == handleUpdateClip(timeline, ds.clipId, ds.originalClip)
        r == MoveResult(ds, PixelsToTime(X - ds.startX), pressTimeline, currentTime,
                        AssetOf(ds.originalClip))
    IN handleUpdateClip(pressTimeline, ds.clipId, r.updates)

C11_TotalDelta ==
    [][lastOp' = "moveAgain" => \E X \in MoveXs : timeline' = DirectMove(X)]_vars

\* a second move of one drag, made after the first one displaced the clip
C11_Witness ==
    /\ lastOp = "moveAgain"
    /\ dragState # NoDrag
    /\ IndexOfId(timeline, dragState.clipId) # 0
    /\ timeline[IndexOfId(timeline, dragState.clipId)] # dragState.originalClip

----------------------------------------------------------------------------
\* C12: a release during a drag ends the session (dragState null, snap
\* indicator cleared) without touching the store, and while no session is open
\* the only steps that change a clip are add-to-timeline, delete and split:
\* no pointer move does.
StoreOps == {"addToTimeline", "delete", "split"}

C12_ReleaseToIdle ==
    [][/\ lastOp' = "release" =>
            /\ dragState # NoDrag
            /\ dragState' = NoDrag
            /\ snapLineX' = <<>>
            /\ timeline' = timeline
       /\ dragState = NoDrag => /\ lastOp' \notin MoveOps
                                /\ lastOp' \notin StoreOps => timeline' = timeline]_vars

\* a release that ends a drag whose moves changed the store
C12_Witness ==
    /\ lastOp = "release"
    /\ dragState = NoDrag
    /\ snapLineX = <<>>
    /\ moves >= 1

----------------------------------------------------------------------------
\* C13: updateClip re-applies the clamps: for every clip of the store and every
\* partial update, legal or not, the stored clip afterwards has
\* duration >= MIN_CLIP_DURATION, startOffset >= 0 and mediaStart >= 0.
ProbeUpdates == <<[duration |-> 0], [startOffset |-> 0 - 1], [mediaStart |-> 0 - 1]>>

C13_StoreClamps ==
    \A i \in 1..Len(timeline) : \A k \in 1..Len(ProbeUpdates) :
        LET c == handleUpdateClip(timeline, timeline[i].id, ProbeUpdates[k])[i]
        IN /\ c.duration >= MIN_CLIP_DURATION
           /\ c.startOffset >= 0
           /\ c.mediaStart >= 0

----------------------------------------------------------------------------
\* C14: a seek (click on the track area or press on the ruler) at pointer
\* position X, measured from the left edge of the scroll container, sets
\* currentTime to max(0, (X - HEADER_WIDTH + scrollLeft) / PIXELS_PER_SECOND) and
\* isPlaying to false; assets, store and selection are unchanged; no seek
\* happens while a clip drag is open.
SeekOps == {"seek", "rulerPress", "rulerMove"}

ExpectedSeekTime(X, scrollLeft) ==
    LET pixelX == (X - RectLeft) - HEADER_WIDTH + scrollLeft
    IN IF pixelX <= 0 THEN 0 ELSE (pixelX * UnitsPerSecond) \div PIXELS_PER_SECOND

C14_Seek ==
    [][/\ \A X \in SeekXs, sl \in ScrubScrolls : SeekTime(X, sl) = ExpectedSeekTime(X, sl)
       /\ lastOp' \in SeekOps =>
            /\ dragState = NoDrag
            /\ \E X \in SeekXs, sl \in ScrubScrolls : currentTime' = ExpectedSeekTime(X, sl)
            /\ ~isPlaying'
            /\ timeline' = timeline
            /\ assets' = assets
            /\ selectedClipId' = selectedClipId
            /\ dragState' = dragState]_vars

\* a seek to a positive time with a clip selected, and one clamped to 0
C14_Witness ==
    /\ lastOp \in SeekOps
    /\ selectedClipId # 0
    /\ ~isPlaying
    /\ currentTime = ExpectedSeekTime(240, 40)
    /\ ExpectedSeekTime(150, 0) = 0

\* C15: while the ruler-drag mode is on, a pointer move over the container at X
\* sets currentTime to the seek time of X.
C15_RulerDragSeeks ==
    isDraggingHeader =>
        \A X \in SeekXs, sl \in ScrubScrolls : ContainerMoveTime(X, sl) = SeekTime(X, sl)

\* C16: the ruler-drag mode and a clip drag session are never open together.
C16_RulerXorClipDrag == ~(isDraggingHeader /\ dragState # NoDrag)

----------------------------------------------------------------------------
\* C17: the clip appended by add-to-timeline starts at the latest end
\* (startOffset + duration) among the clips already on its track, or at 0 when
\* the track is empty.
TrackEnds(tl, trackIndex) ==
    {tl[i].startOffset + tl[i].duration :
        i \in {j \in 1..Len(tl) : tl[j].trackIndex = trackIndex}}

LatestEnd(tl, trackIndex) ==
    IF TrackEnds(tl, trackIndex) = {} THEN 0
    ELSE CHOOSE e \in TrackEnds(tl, trackIndex) :
            \A f \in TrackEnds(tl, trackIndex) : f <= e

C17_AppendAtTrackEnd ==
    [][lastOp' = "addToTimeline" =>
          LET new == timeline'[Len(timeline')]
          IN new.startOffset = LatestEnd(timeline, new.trackIndex)]_vars

\* C18: add-to-timeline for an asset of the list appends exactly one clip with
\* a fresh id, the asset's id, mediaStart 0, the asset's duration and the track
\* of the asset's kind (video/image 0, text 2, audio 3), leaving the existing
\* clips and the asset list unchanged; no add happens for an unknown asset.
KindTrack(type) ==
    CASE type = VIDEO -> 0 [] type = IMAGE -> 0 [] type = TEXT -> 2 [] type = AUDIO -> 3

C18_AddClip ==
    [][lastOp' = "addToTimeline" =>
          LET new == timeline'[Len(timeline')]
          IN /\ Len(timeline') = Len(timeline) + 1
             /\ SubSeq(timeline', 1, Len(timeline)) = timeline
             /\ \A i \in 1..Len(timeline) : timeline[i].id # new.id
             /\ assets' = assets
             /\ \E k \in 1..Len(assets) :
                    /\ new.assetId = assets[k].id
                    /\ new.duration = assets[k].duration
                    /\ new.trackIndex = KindTrack(assets[k].type)
             /\ new.mediaStart = 0
             /\ new.trackIndex # 1]_vars

\* a second clip appended to the audio track
C18_Witness ==
    /\ lastOp = "addToTimeline"
    /\ Len(timeline) >= 2
    /\ timeline[Len(timeline)].trackIndex = 3
    /\ timeline[Len(timeline)].mediaStart = 0

----------------------------------------------------------------------------
\* C19: a delete removes exactly one clip, the one with the given id; the other
\* clips keep all their fields and their order (no gap is closed); the
\* selection is cleared if it was the deleted clip and kept otherwise; deleting
\* an id that is not in the store leaves the store as it is.
WithoutIndex(tl, i) ==
    [j \in 1..(Len(tl) - 1) |-> IF j < i THEN tl[j] ELSE tl[j + 1]]

C19_DeleteExact ==
    [][/\ \A id \in 1..MaxIds :
            IndexOfId(timeline, id) = 0 => DeleteTimeline(timeline, id) = timeline
       /\ lastOp' = "delete" =>
            \E i \in 1..Len(timeline) :
                /\ timeline' = WithoutIndex(timeline, i)
                /\ selectedClipId' = IF selectedClipId = timeline[i].id THEN 0
                                      ELSE selectedClipId]_vars

\* the first of two clips was deleted: the second one stays where it was
C19_Witness ==
    /\ lastOp = "delete"
    /\ selectedClipId = 0
    /\ Len(timeline) >= 1
    /\ timeline[1].startOffset > 0

----------------------------------------------------------------------------
\* C20: the update of a pointer move changes only the supplied fields of the
\* dragged clip (body: startOffset; left: startOffset, mediaStart, duration;
\* right: duration); every other clip and the number and order of clips are
\* unchanged, and when the dragged clip is no longer in the store the store is
\* unchanged.
SuppliedFields(handle) ==
    IF handle = "body" THEN {"startOffset"}
    ELSE IF handle = "left" THEN {"startOffset", "mediaStart", "duration"}
    ELSE {"duration"}

C20_UpdateFrame ==
    [][lastOp' \in MoveOps =>
          LET i == IndexOfId(timeline, dragState.clipId)
          IN /\ Len(timeline') = Len(timeline)
             /\ \A j \in 1..Len(timeline) :
                    /\ j # i => timeline'[j] = timeline[j]
                    /\ DOMAIN timeline'[j] = DOMAIN timeline[j]
                    /\ \A f \in DOMAIN timeline[j] \ SuppliedFields(dragState.handle) :
                           timeline'[j][f] = timeline[j][f]
             /\ i = 0 => timeline' = timeline]_vars

\* a pointer move of a drag whose clip was deleted, with another clip in the store
C20_Witness ==
    /\ lastOp \in MoveOps
    /\ dragState # NoDrag
    /\ IndexOfId(timeline, dragState.clipId) = 0
    /\ timeline # <<>>

----------------------------------------------------------------------------
\* C21: after a split the selection is the second part, whose id was never in
\* the store before (ids issued so far are below nextId), and the first part
\* keeps the id of the clip that was split.
C21_SplitSelectsPart2 ==
    [][lastOp' = "split" =>
          LET k == IndexOfId(timeline, selectedClipId)
          IN /\ k # 0
             /\ Len(timeline') = Len(timeline) + 1
             /\ timeline'[k].id = selectedClipId
             /\ selectedClipId' = timeline'[k + 1].id
             /\ selectedClipId' # selectedClipId
             /\ selectedClipId' >= nextId
             /\ \A i \in 1..Len(timeline) : timeline[i].id # selectedClipId']_vars

\* the selected clip is the second part of a split of a clip that itself was
\* the second part of an earlier split or a later clip of the store
C21_Witness ==
    /\ lastOp = "split"
    /\ \E k \in 1..(Len(timeline) - 1) :
          /\ timeline[k + 1].id = selectedClipId
          /\ timeline[k].id # 1
          /\ timeline[k].startOffset + timeline[k].duration = currentTime
          /\ timeline[k + 1].startOffset = currentTime

----------------------------------------------------------------------------
\* C22: a media element is playing only if isPlaying is true and its track has
\* an active clip whose asset exists and is video or audio; hence a sink whose
\* track has no active clip is paused, and every sink is paused while isPlaying
\* is false.
SinkActive(tr) ==
    LET clip == getActiveClip(timeline, tr, currentTime)
    IN /\ clip # NoClip
       /\ getAsset(assets, clip) # NoAsset
       /\ getAsset(assets, clip).type \in {VIDEO, AUDIO}

C22_SinksMirrorPlayState ==
    \A tr \in SinkTracks :
        (sinks[tr].mounted /\ ~sinks[tr].paused) => (isPlaying /\ SinkActive(tr))

\* playback is on and the playhead is in a gap of the audio track: the audio
\* element, which holds the source of a clip, is paused
C22_Witness ==
    /\ isPlaying
    /\ timeline # <<>>
    /\ ~SinkActive(3)
    /\ sinks[3].src # 0
    /\ sinks[3].paused

----------------------------------------------------------------------------
\* C23: while the load of a sink's new source is in progress the sink is
\* neither seeked nor started: it stays as load() left it, paused at position 0,
\* until the load has completed.
C23_LoadDefersSync ==
    \A tr \in SinkTracks :
        (sinks[tr].mounted /\ sinks[tr].loading) =>
            (sinks[tr].paused /\ sinks[tr].pos = 0)

----------------------------------------------------------------------------
\* C24: when the load of the <video>'s source completes, the handler that runs
\* acts on the current state: the loaded source is the active asset's, the
\* position it sets is the target of the current playhead time and active
\* clip, and it starts the video only if isPlaying is true now.
C24_CompletionIsCurrent ==
    [][lastOp' = "loadedmetadata" =>
          LET clip == LegacyActiveClip(timeline, currentTime)
              asset == getAsset(assets, clip)
          IN /\ asset # NoAsset
             /\ legacyVideo.src = asset.src
             /\ legacyVideo'.pos = clip.mediaStart + (currentTime - clip.startOffset)
             /\ ~legacyVideo'.paused => isPlaying]_vars

----------------------------------------------------------------------------
\* C25: a clip whose assetId matches no asset is tolerated: when it is the
\* active clip of a track, the track's media element is paused and keeps its
\* source and position; while such a clip is being dragged no pointer move is
\* applied and the store does not change.
IsDangling(clip) ==
    clip # NoClip /\ \A k \in 1..Len(assets) : assets[k].id # clip.assetId

C25_DanglingTolerated ==
    [][/\ \A tr \in SinkTracks :
            LET clip == getActiveClip(timeline', tr, currentTime')
            IN (IsDangling(clip) /\ assets' = assets /\ sinks'[tr].mounted) =>
                  /\ sinks'[tr].paused
                  /\ sinks[tr].mounted
                  /\ sinks'[tr].src = sinks[tr].src
                  /\ sinks'[tr].pos = sinks[tr].pos
       /\ IsDangling(dragState.originalClip) =>
            /\ lastOp' \notin MoveOps
            /\ timeline' = timeline]_vars

\* playback was started while the dangling clip of the audio track is under
\* the playhead and is being dragged, with a real asset in the list
C25_Witness ==
    /\ isPlaying
    /\ Len(assets) >= 1
    /\ IsDangling(getActiveClip(timeline, 3, currentTime))
    /\ dragState # NoDrag
    /\ IsDangling(dragState.originalClip)
    /\ sinks[3].paused

----------------------------------------------------------------------------
\* C26: a generation that fails (no image data, or rejected) adds no asset and
\* leaves the clip store unchanged; a generation that succeeds appends exactly
\* one image asset of 5 s; either way the in-progress flag is false afterwards.
\* The flag is set by a request with a non-blank prompt and is true only while
\* the request is unsettled.
C26_GenerationAtomic ==
    [][/\ isGenerating' => genPending'
       /\ lastOp' = "generate" => (~isGenerating /\ isGenerating' /\ assets' = assets
                                     /\ timeline' = timeline)
       /\ lastOp' = "generateFailed" =>
            (assets' = assets /\ timeline' = timeline /\ ~isGenerating')
       /\ lastOp' = "generated" =>
            /\ Len(assets') = Len(assets) + 1
            /\ SubSeq(assets', 1, Len(assets)) = assets
            /\ assets'[Len(assets')].type = IMAGE
            /\ assets'[Len(assets')].duration = 5 * UnitsPerSecond
            /\ timeline' = timeline
            /\ ~isGenerating']_vars

\* a request failed while a clip was on the timeline: stores as before, flag off
C26_Witness ==
    /\ lastOp = "generateFailed"
    /\ ~isGenerating
    /\ Len(assets) = 1
    /\ Len(timeline) >= 1

----------------------------------------------------------------------------
\* C27: every project read back has assets = <<>>; after a save the entry of
\* the saved project id has the name and the clips of the project as saved,
\* other entries are kept; a save whose write fails leaves the storage as it
\* was; no save changes the project in memory, and edits do not change what
\* is stored.
SaveOps == {"save", "saveFailed"}

\* a storage that already holds a project of another id
OtherProject ==
    [id |-> "other", name |-> "Other", assets |-> <<>>,
     timeline |-> <<[id |-> 9, assetId |-> 9, startOffset |-> 0, mediaStart |-> 0,
                     duration |-> MIN_CLIP_DURATION, trackIndex |-> 0]>>]

Persisted(pr) == [pr EXCEPT !.assets = <<>>]

C27_PersistedForm ==
    [][/\ \A i \in 1..Len(storage') : getProjects(storage')[i].assets = <<>>
       /\ getProjects(saveProject(<<StringifyProject(OtherProject)>>,
                                   CurrentProject, FALSE))
             = <<OtherProject, Persisted(CurrentProject)>>
       /\ lastOp' = "save" =>
            /\ Len(storage') = 1
            /\ getProjects(storage')[1] = Persisted(CurrentProject)
       /\ lastOp' = "saveFailed" => storage' = storage
       /\ lastOp' \in SaveOps => (timeline' = timeline /\ assets' = assets)
       /\ lastOp' \notin SaveOps => storage' = storage]_vars

\* a save that replaced an earlier save of the project, with assets in memory
C27_Witness ==
    /\ lastOp = "save"
    /\ Len(assets) >= 1
    /\ Len(timeline) >= 2
    /\ selectedClipId = 0
    /\ nextId > Len(timeline) + 1
    /\ getProjects(storage)[1].timeline = timeline

----------------------------------------------------------------------------
\* C28: no two clips of the store share an id, after any sequence of
\* add-to-timeline, split, update (drag moves) and delete; a new uuid is an
\* id that was never handed out before.
C28_UniqueClipIds ==
    /\ \A i, j \in 1..Len(timeline) : timeline[i].id = timeline[j].id => i = j
    /\ \A i \in 1..Len(timeline) : timeline[i].id < nextId

\* the two parts of a split, one of them moved by a drag onto the other
C28_Witness ==
    /\ lastOp \in MoveOps
    /\ Len(timeline) = 2
    /\ timeline[1].id = 1
    /\ timeline[2].id = 2
    /\ timeline[2].mediaStart = timeline[1].mediaStart + timeline[1].duration
    /\ timeline[2].startOffset < timeline[1].startOffset + timeline[1].duration

----------------------------------------------------------------------------
\* C29: currentTime >= 0 in every reachable state, under any interleaving of
\* animation frames, seeks, ruler drags, skip-to-start/end, play/pause and
\* clip mutations; no writer of currentTime ever produces a negative time.
C29_PlayheadNonNegative ==
    /\ currentTime >= 0
    /\ totalDuration >= 0
    /\ \A X \in ClockSeekXs, sl \in ScrubScrolls : SeekTime(X, sl) >= 0

\* a press on the ruler left of the track area, after a clip was split
C29_Witness ==
    /\ lastOp = "rulerPress"
    /\ currentTime = 0
    /\ isDraggingHeader
    /\ Len(timeline) = 2
    /\ timeline[2].mediaStart > 0
    /\ PixelsToTime(150 - RectLeft - HEADER_WIDTH) < 0

----------------------------------------------------------------------------
\* C30: on each track the active clip at time t is the first clip in store
\* order of that track with startOffset <= t < startOffset + duration, and
\* none when no clip qualifies; at the boundary of two back-to-back clips the
\* earlier one is not active, and at t = totalDuration no clip is active.
Tracks == {0, 1, 2, 3}

Qualifies(clip, trackIndex, t) ==
    /\ clip.trackIndex = trackIndex
    /\ clip.startOffset <= t
    /\ t < clip.startOffset + clip.duration

\* the times around the clips of tl, and the playhead
ProbeTimes(tl) ==
    {currentTime, totalDurationOf(tl)}
        \cup {tl[i].startOffset : i \in 1..Len(tl)}
        \cup {tl[i].startOffset + tl[i].duration : i \in 1..Len(tl)}
        \cup {tl[i].startOffset + tl[i].duration - 1 : i \in 1..Len(tl)}

ActiveResolved(tl) ==
    \A trackIndex \in Tracks, t \in ProbeTimes(tl) :
        LET active == getActiveClip(tl, trackIndex, t)
            Q(i) == Qualifies(tl[i], trackIndex, t)
        IN /\ (active = NoClip) <=> ~(\E i \in 1..Len(tl) : Q(i))
           /\ active # NoClip =>
                \E i \in 1..Len(tl) :
                    /\ active = tl[i]
                    /\ Q(i)
                    /\ \A j \in 1..(i - 1) : ~Q(j)
           /\ t = totalDurationOf(tl) => active = NoClip
           /\ \A i, j \in 1..Len(tl) :
                (/\ tl[i].trackIndex = trackIndex
                 /\ tl[j].trackIndex = trackIndex
                 /\ tl[i].duration > 0
                 /\ tl[j].duration > 0
                 /\ tl[i].startOffset + tl[i].duration = tl[j].startOffset
                 /\ t = tl[j].startOffset)
                => /\ active # tl[i]
                   /\ (\A k \in 1..Len(tl) : Q(k) => k = j) => active = tl[j]

\* clip lists with clips on several tracks, overlapping and back to back
ProbeClip(id, startOffset, duration, trackIndex) ==
    [id |-> id, assetId |-> 1, startOffset |-> startOffset, mediaStart |-> 0,
     duration |-> duration, trackIndex |-> trackIndex]

ActiveProbes ==
    {<<ProbeClip(1, 0, 80, 3), ProbeClip(2, 0, 80, 0), ProbeClip(3, 80, 40, 0)>>,
     <<ProbeClip(1, 40, 80, 0), ProbeClip(2, 0, 80, 0), ProbeClip(3, 60, 120, 2)>>,
     <<ProbeClip(1, 80, 40, 1), ProbeClip(2, 0, 80, 1), ProbeClip(3, 0, 200, 0)>>}

C30_ActiveClip ==
    /\ ActiveResolved(timeline)
    /\ \A tl \in ActiveProbes : ActiveResolved(tl)
    /\ (\A i \in 1..Len(timeline) : timeline[i].trackIndex = 0)
          => \A t \in ProbeTimes(timeline) :
                LegacyActiveClip(timeline, t) = getActiveClip(timeline, 0, t)

\* right after a split the playhead is on the boundary of the two parts and
\* the second part is the active clip of the track
C30_Witness ==
    /\ lastOp = "split"
    /\ \E k \in 1..(Len(timeline) - 1) :
          /\ timeline[k + 1].id = selectedClipId
          /\ timeline[k].startOffset + timeline[k].duration = currentTime
          /\ timeline[k + 1].startOffset = currentTime
          /\ getActiveClip(timeline, timeline[k].trackIndex, currentTime)
                = timeline[k + 1]

----------------------------------------------------------------------------
\* C31: a left-handle move clamps instead of rejecting.  With s the snapped
\* start (orig.startOffset + delta, or the snap point), mediaStart and
\* duration move by s - orig.startOffset; a negative mediaStart is pinned to 0
\* and the correction goes into startOffset and duration; a duration below the
\* minimum gives duration = MIN, startOffset and mediaStart taken from the
\* fixed right edge minus MIN.
ExpectedLeft(o, s) ==
    LET d == s - o.startOffset
        under == IF o.mediaStart + d < 0 THEN 0 - (o.mediaStart + d) ELSE 0
        short == o.duration - d - under < MIN_CLIP_DURATION
    IN IF short
       THEN [startOffset |-> o.startOffset + o.duration - MIN_CLIP_DURATION,
             mediaStart |-> o.mediaStart + o.duration - MIN_CLIP_DURATION,
             duration |-> MIN_CLIP_DURATION]
       ELSE [startOffset |-> s + under,
             mediaStart |-> o.mediaStart + d + under,
             duration |-> o.duration - d - under]

\* the clip {start = 5 s, mediaStart = 5 s, duration = 5 s}, alone in the store
FiveFiveFive ==
    [id |-> 1, assetId |-> 1, startOffset |-> 5 * UnitsPerSecond,
     mediaStart |-> 5 * UnitsPerSecond, duration |-> 5 * UnitsPerSecond,
     trackIndex |-> 0]

LeftOf(clip, X) ==
    LET ds == dragState
        snap == getSnapTime(ds.originalClip.startOffset + PixelsToTime(X - ds.startX),
                            ds.clipId, timeline, currentTime)
    IN [clip EXCEPT !.startOffset = ExpectedLeft(ds.originalClip, snap.time).startOffset,
                    !.mediaStart = ExpectedLeft(ds.originalClip, snap.time).mediaStart,
                    !.duration = ExpectedLeft(ds.originalClip, snap.time).duration]

C31_LeftClamps ==
    [][/\ (lastOp' \in MoveOps /\ dragState.handle = "left"
            /\ IndexOfId(timeline, dragState.clipId) # 0)
          => LET i == IndexOfId(timeline, dragState.clipId)
             IN /\ Len(timeline') = Len(timeline)
                /\ \E X \in MoveXs : timeline'[i] = LeftOf(timeline[i], X)
       /\ LeftMove(FiveFiveFive, 1, 0 - 5 * UnitsPerSecond, <<FiveFiveFive>>, 0).updates
             = [startOffset |-> 0, mediaStart |-> 0, duration |-> 10 * UnitsPerSecond]
       /\ LeftMove(FiveFiveFive, 1, 0 - 7 * UnitsPerSecond, <<FiveFiveFive>>, 0).updates
             = [startOffset |-> 0, mediaStart |-> 0, duration |-> 10 * UnitsPerSecond]
       /\ LeftMove(FiveFiveFive, 1, 5 * UnitsPerSecond, <<FiveFiveFive>>, 0).updates
             = [startOffset |-> 10 * UnitsPerSecond - MIN_CLIP_DURATION,
                mediaStart |-> 10 * UnitsPerSecond - MIN_CLIP_DURATION,
                duration |-> MIN_CLIP_DURATION]]_vars

\* a left-handle move whose delta would have made mediaStart negative: the clip
\* was lengthened to the start of its source instead
C31_Witness ==
    /\ lastOp \in MoveOps
    /\ dragState.handle = "left"
    /\ dragState.originalClip.mediaStart > 0
    /\ \E i \in 1..Len(timeline) :
          /\ timeline[i].id = dragState.clipId
          /\ timeline[i].mediaStart = 0
          /\ timeline[i].duration
                = dragState.originalClip.duration + dragState.originalClip.mediaStart
          /\ \E X \in MoveXs :
                /\ timeline[i] = LeftOf(timeline[i], X)
                /\ dragState.originalClip.mediaStart + PixelsToTime(X - dragState.startX) < 0

----------------------------------------------------------------------------
\* C32: a right-handle move tests proposedEnd = orig end + delta for a snap;
\* the duration is snappedEnd - orig.startOffset if it snapped, orig.duration
\* + delta otherwise, then raised to the minimum, then, for video and audio,
\* lowered to asset.duration - orig.mediaStart.  Only duration is updated.
ExpectedRight(o, snap, deltaTime, asset) ==
    LET raw == IF snap.snapped THEN snap.time - o.startOffset
               ELSE o.duration + deltaTime
        atLeastMin == Max(MIN_CLIP_DURATION, raw)
        remaining == asset.duration - o.mediaStart
    IN IF asset.type \in {VIDEO, AUDIO} /\ atLeastMin > remaining
       THEN remaining ELSE atLeastMin

RightOf(clip, X) ==
    LET ds == dragState
        deltaTime == PixelsToTime(X - ds.startX)
        snap == getSnapTime(ds.originalClip.startOffset + ds.originalClip.duration
                                + deltaTime,
                            ds.clipId, timeline, currentTime)
    IN [clip EXCEPT !.duration = ExpectedRight(ds.originalClip, snap, deltaTime,
                                               AssetOf(ds.originalClip))]

\* an asset of 10 s of the given type, and clips of it
TenSeconds(type) ==
    [id |-> 1, type |-> type, src |-> 1, duration |-> 10 * UnitsPerSecond]

TenClip(startOffset, mediaStart, duration) ==
    [id |-> 1, assetId |-> 1, startOffset |-> startOffset, mediaStart |-> mediaStart,
     duration |-> duration, trackIndex |-> 0]

RightProbe(clip, deltaTime, type) ==
    RightMove(clip, 1, deltaTime, <<clip>>, 0, TenSeconds(type)).updates

C32_RightClamps ==
    [][/\ (lastOp' \in MoveOps /\ dragState.handle = "right"
            /\ IndexOfId(timeline, dragState.clipId) # 0)
          => LET i == IndexOfId(timeline, dragState.clipId)
             IN /\ \E X \in MoveXs : timeline'[i] = RightOf(timeline[i], X)
                /\ Len(timeline') = Len(timeline)
                /\ \A j \in 1..Len(timeline) : j # i => timeline'[j] = timeline[j]
       /\ \A type \in {VIDEO, AUDIO} :
            /\ RightProbe(TenClip(0, 0, 10 * UnitsPerSecond), 20 * UnitsPerSecond, type)
                  = [duration |-> 10 * UnitsPerSecond]
            /\ RightProbe(TenClip(40, 10 * UnitsPerSecond - 10, 10), 0, type)
                  = [duration |-> 10]
       /\ \A type \in {IMAGE, TEXT} :
            RightProbe(TenClip(0, 0, 10 * UnitsPerSecond), 20 * UnitsPerSecond, type)
                  = [duration |-> 30 * UnitsPerSecond]
       /\ RightProbe(TenClip(40, 0, 80), 0 - 80, VIDEO)
             = [duration |-> MIN_CLIP_DURATION]]_vars

\* a right-handle move that the asset length has cut short: the pointer went
\* further right than the source of the trimmed video allows
C32_Witness ==
    /\ lastOp \in MoveOps
    /\ dragState.handle = "right"
    /\ \E i \in 1..Len(timeline) :
          /\ timeline[i].id = dragState.clipId
          /\ AssetOf(timeline[i]).type = VIDEO
          /\ timeline[i].startOffset = dragState.originalClip.startOffset
          /\ \E X \in MoveXs :
                /\ timeline[i] = RightOf(timeline[i], X)
                /\ timeline[i].duration
                      < dragState.originalClip.duration + PixelsToTime(X - dragState.startX)
                /\ timeline[i].mediaStart + timeline[i].duration
                      = AssetOf(timeline[i]).duration

----------------------------------------------------------------------------
\* C33: a body move proposes newStart = orig.startOffset + delta; if the left
\* edge snaps, newStart is the snapped time; only otherwise the right edge
\* (newStart + duration) is tested and, if it snaps, newStart = snappedRight
\* - duration; at the end newStart = max(0, newStart).  Only startOffset is
\* updated.
ExpectedBody(o, clipId, deltaTime, clips, ct) ==
    LET proposed == o.startOffset + deltaTime
        left == getSnapTime(proposed, clipId, clips, ct)
        right == getSnapTime(proposed + o.duration, clipId, clips, ct)
    IN Max(0, IF left.snapped THEN left.time
              ELSE IF right.snapped THEN right.time - o.duration
              ELSE proposed)

BodyOf(clip, X) ==
    LET ds == dragState
    IN [clip EXCEPT !.startOffset =
            ExpectedBody(ds.originalClip, ds.clipId, PixelsToTime(X - ds.startX),
                         timeline, currentTime)]

\* a clip of 2 s at 2.5 s, with another clip starting at otherStart
BodyProbe(deltaTime, otherStart, ct) ==
    LET clip == TenClip(100, 0, 80)
        other == [TenClip(otherStart, 0, 80) EXCEPT !.id = 2]
    IN BodyMove(clip, 1, deltaTime, <<clip, other>>, ct).updates

C33_BodyMove ==
    [][/\ (lastOp' \in MoveOps /\ dragState.handle = "body"
            /\ IndexOfId(timeline, dragState.clipId) # 0)
          => LET i == IndexOfId(timeline, dragState.clipId)
             IN /\ \E X \in MoveXs : timeline'[i] = BodyOf(timeline[i], X)
                /\ Len(timeline') = Len(timeline)
                /\ \A j \in 1..Len(timeline) : j # i => timeline'[j] = timeline[j]
       \* both edges within the threshold: the left one wins
       /\ BodyProbe(0, 190, 105) = [startOffset |-> 105]
       \* only the right edge within the threshold
       /\ BodyProbe(0, 190, 0) = [startOffset |-> 110]
       \* no edge within the threshold
       /\ BodyProbe(30, 400, 0) = [startOffset |-> 130]
       \* the right edge snaps onto the playhead and the start is clamped
       /\ BodyProbe(0 - 172, 400, 10) = [startOffset |-> 0]
       /\ BodyProbe(0 - 140, 400, 0) = [startOffset |-> 0]]_vars

\* a body move in which the right edge of the dragged clip snapped onto the
\* start of another clip while its left edge was free
C33_Witness ==
    /\ lastOp \in MoveOps
    /\ dragState.handle = "body"
    /\ snapLineX # <<>>
    /\ \E i, j \in 1..Len(timeline) :
          /\ timeline[i].id = dragState.clipId
          /\ i # j
          /\ timeline[i].startOffset + timeline[i].duration = timeline[j].startOffset
          /\ snapLineX[1] = TimeToPixels(timeline[j].startOffset)
          /\ timeline[i].startOffset \notin SnapCandidates(dragState.clipId)
          /\ \E X \in MoveXs : timeline[i] = BodyOf(timeline[i], X)

----------------------------------------------------------------------------
\* C34: every transition Idle -> Dragging with handle left or right is on the
\* clip that is selected at that moment, and every transition Idle ->
\* Dragging with handle body makes the pressed clip the selected clip.
C34_TrimNeedsSelection ==
    [][(dragState = NoDrag /\ dragState' # NoDrag) =>
          /\ IndexOfId(timeline, dragState'.clipId) # 0
          /\ dragState'.originalClip = timeline[IndexOfId(timeline, dragState'.clipId)]
          /\ dragState'.handle \in Handles =>
                /\ dragState'.clipId = selectedClipId
                /\ selectedClipId' = selectedClipId
          /\ dragState'.handle = "body" => selectedClipId' = dragState'.clipId]_vars

\* a trim drag just opened on the selected one of two clips, the second in the
\* store
C34_Witness ==
    /\ lastOp = "pressHandle"
    /\ dragState.handle \in Handles
    /\ moves = 0
    /\ Len(timeline) = 2
    /\ dragState.clipId = selectedClipId
    /\ timeline[2].id = selectedClipId

----------------------------------------------------------------------------
\* C35: a left-handle trim never moves the right edge of the clip: for every
\* delta and every snap outcome the update has startOffset + duration =
\* orig.startOffset + orig.duration and mediaStart + duration =
\* orig.mediaStart + orig.duration.
TrimDeltas == {d \in (0 - MaxTime)..MaxTime : d % 4 = 0 \/ Abs(d) <= 21}

KeepsRightEdge(o, u) ==
    /\ u.startOffset + u.duration = o.startOffset + o.duration
    /\ u.mediaStart + u.duration = o.mediaStart + o.duration

C35_RightEdgeFixed ==
    dragState # NoDrag =>
        /\ \A deltaTime \in TrimDeltas :
              KeepsRightEdge(dragState.originalClip,
                             LeftMove(dragState.originalClip, dragState.clipId,
                                      deltaTime, timeline, currentTime).updates)
        /\ (/\ lastOp \in MoveOps
            /\ dragState.handle = "left"
            /\ IndexOfId(timeline, dragState.clipId) # 0)
           => KeepsRightEdge(dragState.originalClip,
                             timeline[IndexOfId(timeline, dragState.clipId)])

\* a left-handle move past the right edge: the clip was cut to the minimum
\* duration, its end where it was
C35_Witness ==
    /\ lastOp \in MoveOps
    /\ dragState.handle = "left"
    /\ dragState.originalClip.duration > MIN_CLIP_DURATION
    /\ \E i \in 1..Len(timeline) :
          /\ timeline[i].id = dragState.clipId
          /\ timeline[i].duration = MIN_CLIP_DURATION
          /\ timeline[i].startOffset
                = dragState.originalClip.startOffset + dragState.originalClip.duration
                    - MIN_CLIP_DURATION

----------------------------------------------------------------------------
\* C36: in every reachable state selectedClipId is null or the id of a clip of
\* the store, after any sequence of select, body press, add, split and delete.
C36_SelectionValid ==
    selectedClipId = 0 \/ IndexOfId(timeline, selectedClipId) # 0

\* the selected clip was deleted while another clip stays in the store
C36_Witness ==
    /\ lastOp = "delete"
    /\ selectedClipId = 0
    /\ Len(timeline) = 1
    /\ nextId = MaxEditIds + 1

----------------------------------------------------------------------------
\* C37: whenever the snap indicator is shown after a pointer move, at time
\* T = snapLineX / PIXELS_PER_SECOND, the update of that move has put an edge
\* of the dragged clip at T: the start for a left-handle move, the end for a
\* right-handle move, one of the two for a body move.
C37_SnapIndicatorTrue ==
    (/\ lastOp \in MoveOps
     /\ snapLineX # <<>>
     /\ IndexOfId(timeline, dragState.clipId) # 0)
    => LET clip == timeline[IndexOfId(timeline, dragState.clipId)]
           atStart == TimeToPixels(clip.startOffset) = snapLineX[1]
           atEnd == TimeToPixels(clip.startOffset + clip.duration) = snapLineX[1]
       IN /\ dragState.handle = "left" => atStart
          /\ dragState.handle = "right" => atEnd
          /\ dragState.handle = "body" => (atStart \/ atEnd)

----------------------------------------------------------------------------
EmptyTimelineKeepsPlaying ==
    [][(timeline = <<>> /\ isPlaying /\ lastOp' = "tick" /\ currentTime' # currentTime)
          => (isPlaying' /\ currentTime' > currentTime /\ currentTime' > totalDuration)]_vars

----------------------------------------------------------------------------
\* C39: a pointer move whose total delta since the press is 0 leaves the
\* dragged clip's startOffset, mediaStart and duration equal to the press-time
\* snapshot, for every handle and every configuration of other clips and
\* playhead.
ZeroDeltaUpdates ==
    MoveResult(dragState, 0, timeline, currentTime, AssetOf(dragState.originalClip)).updates

C39_ZeroDeltaNeutral ==
    (dragState # NoDrag /\ AssetOf(dragState.originalClip) # NoAsset) =>
        /\ \A f \in DOMAIN ZeroDeltaUpdates :
              ZeroDeltaUpdates[f] = dragState.originalClip[f]
        /\ (/\ lastOp \in MoveOps
            /\ IndexOfId(timeline, dragState.clipId) # 0
            /\ timeline[IndexOfId(timeline, dragState.clipId)]
                  = Merge(dragState.originalClip, ZeroDeltaUpdates))
           => timeline[IndexOfId(timeline, dragState.clipId)] = dragState.originalClip

----------------------------------------------------------------------------
\* C40: a clip's trackIndex and assetId never change after creation, and both
\* parts of a split are on the track of the clip that was split; so every
\* clip sits on the track of its asset's kind, no clip is on track 1, and the
\* overlay sink never has an active clip.
OnKindTrack(tl) ==
    \A i \in 1..Len(tl) :
        /\ getAsset(assets, tl[i]) # NoAsset
        /\ tl[i].trackIndex = KindTrack(getAsset(assets, tl[i]).type)
        /\ tl[i].trackIndex # 1

OverlayIdle(tl, el) ==
    /\ \A t \in ProbeTimes(tl) : getActiveClip(tl, 1, t) = NoClip
    /\ el.paused
    /\ el.src = 0

C40_TrackAndAssetFixed ==
    [][/\ OnKindTrack(timeline)
       /\ OnKindTrack(timeline')
       /\ OverlayIdle(timeline, sinks[1])
       /\ OverlayIdle(timeline', sinks'[1])
       /\ \A i \in 1..Len(timeline), j \in 1..Len(timeline') :
            timeline[i].id = timeline'[j].id =>
                /\ timeline'[j].trackIndex = timeline[i].trackIndex
                /\ timeline'[j].assetId = timeline[i].assetId
       /\ lastOp' = "split" =>
            LET k == IndexOfId(timeline, selectedClipId)
            IN /\ Len(timeline') = Len(timeline) + 1
               /\ timeline'[k + 1].trackIndex = timeline[k].trackIndex
               /\ timeline'[k + 1].assetId = timeline[k].assetId]_vars

\* an audio clip was split: both parts are on the audio track
C40_Witness ==
    /\ lastOp = "split"
    /\ Len(timeline) = 2
    /\ timeline[1].trackIndex = 3
    /\ timeline[2].trackIndex = 3
    /\ timeline[2].assetId = timeline[1].assetId
    /\ timeline[2].mediaStart > 0

====
